---- MODULE Spec2Model ----
(***************************************************************************)
(* Layout engine of a scrollable-tiling compositor: MonitorSet, Monitor,   *)
(* Workspace and Column of src/src/layout.rs, and the double-ended         *)
(* workspace sequence of src/src/layout/workspaces.rs.                     *)
(*                                                                         *)
(* Rust indices are 0-based and are kept 0-based in the state; sequences  *)
(* are read through At/RemoveAt/InsertAt, which take 0-based positions.    *)
(* A Rust panic (failed index, unwrap, expect, panic!, todo!) is the       *)
(* absorbing flag `panicked`.                                              *)
(***************************************************************************)
EXTENDS Integers, Sequences, FiniteSets, TLC

\* ------------------------------------------------------------------ bounds
\* The longest workspace list a monitor is let to reach.
MaxWorkspaces == 3
\* The longest workspace sequence push_front and push_back are let to build.
MaxSeqLen == 3
\* The largest workspace_idx_offset a sequence call is let to reach.
MaxOffset == 4

\* --------------------------------------------------------------- universes
\* An Output handle; its name is all the layout reads of its identity.
Outputs == {[name |-> "A"], [name |-> "B"]}
\* The windows the clients may map.
Windows == {"w1", "w2"}
\* The ids of the workspaces a sequence may be given.
WorkspaceIds == {"a", "b", "c"}
\* The ids of the workspaces Workspace::new may return to the sequence.
NewWorkspaceIds == {"n1", "n2"}
\* The workspaces that have no window and no name.
EmptyWorkspaceIds == {"c"} \cup NewWorkspaceIds
\* Option<Output>::None
NoOutput == [name |-> "-"]

\* ----------------------------------------------------- 0-based Vec helpers
At(s, i) == s[i + 1]
RemoveAt(s, i) == SubSeq(s, 1, i) \o SubSeq(s, i + 2, Len(s))
InsertAt(s, i, x) == SubSeq(s, 1, i) \o <<x>> \o SubSeq(s, i + 1, Len(s))
SetAt(s, i, x) == [s EXCEPT ![i + 1] = x]
SwapAt(s, i, j) == [s EXCEPT ![i + 1] = s[j + 1], ![j + 1] = s[i + 1]]
Idx(s) == 0..(Len(s) - 1)
min(a, b) == IF a <= b THEN a ELSE b
\* usize::saturating_sub(1)
saturating_sub1(a) == IF a = 0 THEN 0 ELSE a - 1
\* Iterator::position: the first 0-based index satisfying P, or -1 for None.
Position(s, P(_)) ==
    IF \E i \in Idx(s) : P(At(s, i))
    THEN CHOOSE i \in Idx(s) : P(At(s, i)) /\ \A j \in 0..(i - 1) : ~P(At(s, j))
    ELSE -1
\* Vec::retain
Retain(s, P(_)) == SelectSeq(s, P)
\* map over a Vec
MapSeq(s, F(_)) == [i \in 1..Len(s) |-> F(s[i])]

\* ------------------------------------------------------------------ outputs
OutputId(output) == output.name
\* The logical size of an output's current mode (an input of the layout).
output_size(output) ==
    IF output.name = "A" THEN [w |-> 1280, h |-> 720] ELSE [w |-> 1920, h |-> 1080]

\* ------------------------------------------------------------ i32 and sizes
\* const PADDING: i32
PADDING == 16
\* i32::MAX and i32::MIN
I32Max == 2147483647
I32Min == -I32Max - 1

\* An i32 result, or the overflow a build with overflow checks panics on.
Overflow == [overflow |-> TRUE, value |-> 0]
I32(value) == [overflow |-> FALSE, value |-> value]

\* a - b in i32 for b >= 0: a build with overflow checks (debug) panics when
\* the difference leaves the range, a build without them wraps around.
sub_i32(a, b, debug) ==
    IF a < I32Min + b
    THEN IF debug THEN Overflow ELSE I32((a - I32Min) + (I32Max - b) + 1)
    ELSE I32(a - b)

\* a / b in i32 for b > 0: the quotient is truncated toward zero.
div_i32(a, b) == IF a >= 0 THEN a \div b ELSE (a + b - 1) \div b

\* (v as f64 * proportion).floor() as i32 for the proportion num/den, num and
\* den powers of two (the product is exact in f64); the cast saturates.
floor_mul(v, num, den) ==
    LET q == v \div den
        small == (num * (v % den)) \div den
    IN  IF q < I32Min \div num THEN I32Min
        ELSE IF q > (I32Max - small) \div num THEN I32Max
        ELSE q * num + small

Proportion(num, den) == [kind |-> "Proportion", num |-> num, den |-> den]
Fixed(width) == [kind |-> "Fixed", num |-> width, den |-> 1]

\* ColumnWidth::resolve
resolve(width, view_width) ==
    IF width.kind = "Proportion" THEN floor_mul(view_width, width.num, width.den)
    ELSE width.num

Size(w, h) == [w |-> w, h |-> h]
\* LayoutElement::min_size of a window that declares one ({0, 0}: none)
min_size(window) == window.min_size

\* The largest element of a non-empty set of integers (Iterator::max).
Largest(set) == CHOOSE v \in set : \A u \in set : u <= v

\* The request a panicked update_window_sizes never sent.
NoRequest == [kind |-> "Panic", w |-> 0, h |-> 0]

\* ------------------------------------------------------------------- Column
\* ColumnWidth::default()
ColumnWidthDefault == [kind |-> "Proportion", num |-> 1, den |-> 2]

\* Column::update_window_sizes with no regard for the windows' min widths.
UpdateWindowSizesNoMin(col, view_size, debug) ==
    LET view_width == sub_i32(view_size.w, PADDING, debug)
        view_height == sub_i32(view_size.h, PADDING, debug)
    IN  IF view_width.overflow \/ view_height.overflow \/ col.windows = <<>>
        THEN NoRequest
        ELSE Size(resolve(col.width, view_width.value), 1)

\* Column::update_window_sizes: the size it requests of every window of the
\* column, or NoRequest if it panicked (an overflow in a build that checks,
\* a division by a window count of zero).
update_window_sizes(col, view_size, debug) ==
    LET nonzero == {min_size(At(col.windows, i)).w : i \in Idx(col.windows)} \ {0}
        min_width == IF nonzero = {} THEN 1 ELSE Largest(nonzero)
        view_width == sub_i32(view_size.w, PADDING, debug)
        view_height == sub_i32(view_size.h, PADDING, debug)
    IN  IF view_width.overflow \/ view_height.overflow \/ col.windows = <<>>
        THEN NoRequest
        ELSE LET width == sub_i32(resolve(col.width, view_width.value), PADDING, debug)
                 height == sub_i32(div_i32(view_height.value, Len(col.windows)),
                                   PADDING, debug)
             IN  IF width.overflow \/ height.overflow THEN NoRequest
                 ELSE Size(IF width.value > min_width THEN width.value ELSE min_width,
                           IF height.value > 1 THEN height.value ELSE 1)

\* Column::set_width (the size requests go to the windows, not the layout)
ColumnSetWidth(col, view_size, width) == [col EXCEPT !.width = width]

\* Column::add_window (the size requests go to the windows, not the layout)
ColumnAddWindow(col, view_size, window) ==
    [col EXCEPT !.windows = Append(@, window)]

ColumnNew(window, view_size) ==
    ColumnAddWindow([windows |-> <<>>, active_window_idx |-> 0,
                     width |-> ColumnWidthDefault], view_size, window)

ColumnContains(col, window) == \E i \in Idx(col.windows) : At(col.windows, i) = window

ColumnActivateWindow(col, window) ==
    [col EXCEPT !.active_window_idx = Position(col.windows, LAMBDA x : x = window)]

ColumnFocusUp(col) ==
    LET new_idx == saturating_sub1(col.active_window_idx)
    IN  IF col.active_window_idx = new_idx THEN col
        ELSE [col EXCEPT !.active_window_idx = new_idx]

ColumnFocusDown(col) ==
    LET new_idx == min(col.active_window_idx + 1, Len(col.windows) - 1)
    IN  IF col.active_window_idx = new_idx THEN col
        ELSE [col EXCEPT !.active_window_idx = new_idx]

ColumnMoveUp(col) ==
    LET new_idx == saturating_sub1(col.active_window_idx)
    IN  IF col.active_window_idx = new_idx THEN col
        ELSE [col EXCEPT !.windows = SwapAt(@, col.active_window_idx, new_idx),
                         !.active_window_idx = new_idx]

\* Column::move_down that swaps the windows and leaves active_window_idx
\* where it was.
ColumnMoveDownStale(col) ==
    LET new_idx == min(col.active_window_idx + 1, Len(col.windows) - 1)
    IN  IF col.active_window_idx = new_idx THEN col
        ELSE [col EXCEPT !.windows = SwapAt(@, col.active_window_idx, new_idx)]

ColumnMoveDown(col) ==
    LET new_idx == min(col.active_window_idx + 1, Len(col.windows) - 1)
    IN  IF col.active_window_idx = new_idx THEN col
        ELSE [col EXCEPT !.windows = SwapAt(@, col.active_window_idx, new_idx),
                         !.active_window_idx = new_idx]

\* Column::verify_invariants: TRUE iff no assertion fails
ColumnVerifyInvariants(col) ==
    /\ col.windows # <<>>
    /\ col.active_window_idx < Len(col.windows)

\* ---------------------------------------------------------------- Workspace
\* Workspace::new
WorkspaceNew(output) ==
    [original_output |-> OutputId(output),
     output |-> output,
     view_size |-> output_size(output),
     columns |-> <<>>,
     active_column_idx |-> 0,
     view_offset |-> 0]

\* Workspace::windows, as the sequence of all windows, column by column
RECURSIVE FlattenColumns(_)
FlattenColumns(columns) ==
    IF columns = <<>> THEN <<>>
    ELSE Head(columns).windows \o FlattenColumns(Tail(columns))

WorkspaceWindows(ws) == FlattenColumns(ws.columns)

\* Workspace::has_windows
has_windows(ws) == WorkspaceWindows(ws) # <<>>

\* Workspace::has_window
has_window(ws, window) ==
    \E i \in Idx(WorkspaceWindows(ws)) : At(WorkspaceWindows(ws), i) = window

\* Workspace::set_view_size
WorkspaceSetViewSize(ws, size) ==
    IF ws.view_size = size THEN ws ELSE [ws EXCEPT !.view_size = size]

\* Workspace::set_output
WorkspaceSetOutput(ws, output) ==
    IF ws.output = output THEN ws
    ELSE IF output # NoOutput
         THEN [WorkspaceSetViewSize(ws, output_size(output)) EXCEPT !.output = output]
         ELSE [ws EXCEPT !.output = NoOutput]

\* Workspace::add_window that puts the new column after all the others.
WorkspaceAddWindowAtEnd(ws, window, activate) ==
    LET idx == Len(ws.columns)
        column == ColumnNew(window, ws.view_size)
    IN  [ws EXCEPT !.columns = InsertAt(@, idx, column),
                   !.active_column_idx = IF activate THEN idx ELSE @]

\* Workspace::add_window that makes the workspace forget its origin: its
\* current output becomes its original output.
WorkspaceAddWindowForgetOrigin(ws, window, activate) ==
    LET idx == IF ws.columns = <<>> THEN 0 ELSE ws.active_column_idx + 1
        column == ColumnNew(window, ws.view_size)
    IN  [ws EXCEPT !.columns = InsertAt(@, idx, column),
                   !.active_column_idx = IF activate THEN idx ELSE @,
                   !.original_output =
                       IF ws.output # NoOutput THEN OutputId(ws.output) ELSE @]

\* Workspace::add_window
WorkspaceAddWindow(ws, window, activate) ==
    LET idx == IF ws.columns = <<>> THEN 0 ELSE ws.active_column_idx + 1
        column == ColumnNew(window, ws.view_size)
    IN  [ws EXCEPT !.columns = InsertAt(@, idx, column),
                   !.active_column_idx = IF activate THEN idx ELSE @]

\* Workspace::remove_window that leaves active_column_idx alone when the
\* column of the window goes.
WorkspaceRemoveWindowNoClamp(ws, window) ==
    LET column_idx == Position(ws.columns, LAMBDA c : ColumnContains(c, window))
        column == At(ws.columns, column_idx)
        window_idx == Position(column.windows, LAMBDA x : x = window)
        windows == RemoveAt(column.windows, window_idx)
    IN  IF windows = <<>>
        THEN [ws EXCEPT !.columns = RemoveAt(ws.columns, column_idx)]
        ELSE [ws EXCEPT !.columns = SetAt(@, column_idx,
                 [column EXCEPT !.windows = windows,
                                !.active_window_idx = min(@, Len(windows) - 1)])]

\* Workspace::remove_window (the window is in the workspace)
WorkspaceRemoveWindow(ws, window) ==
    LET column_idx == Position(ws.columns, LAMBDA c : ColumnContains(c, window))
        column == At(ws.columns, column_idx)
        window_idx == Position(column.windows, LAMBDA x : x = window)
        windows == RemoveAt(column.windows, window_idx)
    IN  IF windows = <<>>
        THEN LET columns == RemoveAt(ws.columns, column_idx)
             IN  IF columns = <<>>
                 THEN [ws EXCEPT !.columns = columns]
                 ELSE [ws EXCEPT !.columns = columns,
                                 !.active_column_idx = min(@, Len(columns) - 1)]
        ELSE [ws EXCEPT !.columns = SetAt(@, column_idx,
                 [column EXCEPT !.windows = windows,
                                !.active_window_idx = min(@, Len(windows) - 1)])]

\* Workspace::activate_window (the window is in the workspace)
WorkspaceActivateWindow(ws, window) ==
    LET column_idx == Position(ws.columns, LAMBDA c : ColumnContains(c, window))
        column == At(ws.columns, column_idx)
    IN  [ws EXCEPT !.columns = SetAt(@, column_idx, ColumnActivateWindow(column, window)),
                   !.active_column_idx = column_idx]

\* Workspace::verify_invariants: TRUE iff no assertion fails
WorkspaceVerifyInvariants(ws) ==
    /\ ws.view_size.w > 0
    /\ ws.view_size.h > 0
    /\ (ws.columns = <<>> \/ ws.active_column_idx < Len(ws.columns))
    /\ \A i \in Idx(ws.columns) : ColumnVerifyInvariants(At(ws.columns, i))

WorkspaceFocusLeft(ws) ==
    LET new_idx == saturating_sub1(ws.active_column_idx)
    IN  IF ws.active_column_idx = new_idx THEN ws
        ELSE [ws EXCEPT !.active_column_idx = new_idx]

WorkspaceFocusRight(ws) ==
    IF ws.columns = <<>> THEN ws
    ELSE LET new_idx == min(ws.active_column_idx + 1, Len(ws.columns) - 1)
         IN  IF ws.active_column_idx = new_idx THEN ws
             ELSE [ws EXCEPT !.active_column_idx = new_idx]

\* Workspace::focus_down, focus_up, move_down, move_up: the active column's F
WorkspaceInActiveColumn(ws, F(_)) ==
    IF ws.columns = <<>> THEN ws
    ELSE [ws EXCEPT !.columns =
             SetAt(@, ws.active_column_idx, F(At(ws.columns, ws.active_column_idx)))]

WorkspaceFocusDown(ws) == WorkspaceInActiveColumn(ws, ColumnFocusDown)
WorkspaceFocusUp(ws) == WorkspaceInActiveColumn(ws, ColumnFocusUp)
WorkspaceMoveDown(ws) == WorkspaceInActiveColumn(ws, ColumnMoveDown)
WorkspaceMoveUp(ws) == WorkspaceInActiveColumn(ws, ColumnMoveUp)

\* Workspace::move_left that wraps the first column around to the far end.
WorkspaceMoveLeftWrapping(ws) ==
    LET new_idx == IF ws.active_column_idx = 0 /\ ws.columns # <<>>
                   THEN Len(ws.columns) - 1
                   ELSE saturating_sub1(ws.active_column_idx)
    IN  IF ws.active_column_idx = new_idx THEN ws
        ELSE [ws EXCEPT !.columns = SwapAt(@, ws.active_column_idx, new_idx),
                        !.active_column_idx = new_idx]

WorkspaceMoveLeft(ws) ==
    LET new_idx == saturating_sub1(ws.active_column_idx)
    IN  IF ws.active_column_idx = new_idx THEN ws
        ELSE [ws EXCEPT !.columns = SwapAt(@, ws.active_column_idx, new_idx),
                        !.active_column_idx = new_idx]

WorkspaceMoveRight(ws) ==
    IF ws.columns = <<>> THEN ws
    ELSE LET new_idx == min(ws.active_column_idx + 1, Len(ws.columns) - 1)
         IN  IF ws.active_column_idx = new_idx THEN ws
             ELSE [ws EXCEPT !.columns = SwapAt(@, ws.active_column_idx, new_idx),
                             !.active_column_idx = new_idx]

\* Workspace::consume_into_column that takes the last window of the column to
\* the right.
WorkspaceConsumeLast(ws) ==
    IF Len(ws.columns) < 2 THEN ws
    ELSE IF ws.active_column_idx = Len(ws.columns) - 1 THEN ws
    ELSE LET source_column == At(ws.columns, ws.active_column_idx + 1)
             window == At(source_column.windows, Len(source_column.windows) - 1)
             removed == WorkspaceRemoveWindow(ws, window)
             target_column == At(removed.columns, removed.active_column_idx)
         IN  [removed EXCEPT !.columns = SetAt(@, removed.active_column_idx,
                  ColumnAddWindow(target_column, removed.view_size, window))]

WorkspaceConsumeIntoColumn(ws) ==
    IF Len(ws.columns) < 2 THEN ws
    ELSE IF ws.active_column_idx = Len(ws.columns) - 1 THEN ws
    ELSE LET source_column_idx == ws.active_column_idx + 1
             window == At(At(ws.columns, source_column_idx).windows, 0)
             removed == WorkspaceRemoveWindow(ws, window)
             target_column == At(removed.columns, removed.active_column_idx)
         IN  [removed EXCEPT !.columns = SetAt(@, removed.active_column_idx,
                  ColumnAddWindow(target_column, removed.view_size, window))]

\* Workspace::expel_from_column that adds the window back without activating
\* it.
WorkspaceExpelNoActivate(ws) ==
    IF ws.columns = <<>> THEN ws
    ELSE LET source_column == At(ws.columns, ws.active_column_idx)
         IN  IF Len(source_column.windows) = 1 THEN ws
             ELSE LET window == At(source_column.windows, source_column.active_window_idx)
                  IN  WorkspaceAddWindow(WorkspaceRemoveWindow(ws, window), window, FALSE)

WorkspaceExpelFromColumn(ws) ==
    IF ws.columns = <<>> THEN ws
    ELSE LET source_column == At(ws.columns, ws.active_column_idx)
         IN  IF Len(source_column.windows) = 1 THEN ws
             ELSE LET window == At(source_column.windows, source_column.active_window_idx)
                  IN  WorkspaceAddWindow(WorkspaceRemoveWindow(ws, window), window, TRUE)


\* --------------------------------------------------------------- MonitorSet
\* enum MonitorSet { Normal { monitors, primary_idx, active_monitor_idx },
\*                   NoOutputs(workspaces) }, as one record; the fields of the
\* other variant are held at <<>> and 0.
Normal(monitors, primary_idx, active_monitor_idx) ==
    [kind |-> "Normal", monitors |-> monitors, primary_idx |-> primary_idx,
     active_monitor_idx |-> active_monitor_idx, workspaces |-> <<>>]

NoOutputs(workspaces) ==
    [kind |-> "NoOutputs", monitors |-> <<>>, primary_idx |-> 0,
     active_monitor_idx |-> 0, workspaces |-> workspaces]

\* The result of an operation that panicked.
Panic ==
    [kind |-> "Panic", monitors |-> <<>>, primary_idx |-> 0,
     active_monitor_idx |-> 0, workspaces |-> <<>>]

\* struct Monitor
Monitor(output, workspaces, active_workspace_idx) ==
    [output |-> output, workspaces |-> workspaces,
     active_workspace_idx |-> active_workspace_idx]

\* MonitorSet::new
MonitorSetNew == NoOutputs(<<>>)

\* monitors.iter().position(|mon| &mon.output == output), -1 for None
MonitorPosition(s, output) == Position(s.monitors, LAMBDA mon : mon.output = output)

\* add_output without the affinity test: the new monitor takes every
\* window-bearing workspace of the primary monitor but its last one, whatever
\* its original_output.
AddOutputAnyOrigin(s, output) ==
    IF s.kind = "Normal"
    THEN LET primary == At(s.monitors, s.primary_idx)
             n == Len(primary.workspaces)
             body == SubSeq(primary.workspaces, 1, n - 1)
             taken == Retain(body, has_windows)
             kept == Retain(body, LAMBDA ws : ~has_windows(ws))
                        \o SubSeq(primary.workspaces, n, n)
             bound == MapSeq(Append(taken, WorkspaceNew(output)),
                             LAMBDA ws : WorkspaceSetOutput(ws, output))
             monitors == SetAt(s.monitors, s.primary_idx,
                               [primary EXCEPT !.workspaces = kept])
         IN  Normal(Append(monitors, Monitor(output, bound, 0)),
                    s.primary_idx, s.active_monitor_idx)
    ELSE LET bound == MapSeq(Append(s.workspaces, WorkspaceNew(output)),
                             LAMBDA ws : WorkspaceSetOutput(ws, output))
         IN  Normal(<<Monitor(output, bound, 0)>>, 0, 0)

\* add_output with the affinity test inverted: the new monitor takes, of the
\* primary monitor's workspaces but the last, those whose original_output is
\* not the new output.
AddOutputInverted(s, output) ==
    IF s.kind = "Normal"
    THEN LET id == OutputId(output)
             primary == At(s.monitors, s.primary_idx)
             n == Len(primary.workspaces)
             body == SubSeq(primary.workspaces, 1, n - 1)
             taken == Retain(body, LAMBDA ws : ws.original_output # id)
             kept == Retain(body, LAMBDA ws : ws.original_output = id)
                        \o SubSeq(primary.workspaces, n, n)
             bound == MapSeq(Append(taken, WorkspaceNew(output)),
                             LAMBDA ws : WorkspaceSetOutput(ws, output))
             monitors == SetAt(s.monitors, s.primary_idx,
                               [primary EXCEPT !.workspaces = kept])
         IN  Normal(Append(monitors, Monitor(output, bound, 0)),
                    s.primary_idx, s.active_monitor_idx)
    ELSE LET bound == MapSeq(Append(s.workspaces, WorkspaceNew(output)),
                             LAMBDA ws : WorkspaceSetOutput(ws, output))
         IN  Normal(<<Monitor(output, bound, 0)>>, 0, 0)

\* add_output whose NoOutputs arm puts the new empty workspace first and
\* leaves the orphans bound to no output.
AddOutputEmptyFirst(s, output) ==
    IF s.kind = "Normal"
    THEN LET id == OutputId(output)
             primary == At(s.monitors, s.primary_idx)
             taken == Retain(primary.workspaces, LAMBDA ws : ws.original_output = id)
             kept == Retain(primary.workspaces, LAMBDA ws : ws.original_output # id)
             workspaces ==
                 IF \A i \in Idx(taken) : has_windows(At(taken, i))
                 THEN Append(taken, WorkspaceNew(output))
                 ELSE taken
             bound == MapSeq(workspaces, LAMBDA ws : WorkspaceSetOutput(ws, output))
             monitors == SetAt(s.monitors, s.primary_idx,
                               [primary EXCEPT !.workspaces = kept])
         IN  Normal(Append(monitors, Monitor(output, bound, 0)),
                    s.primary_idx, s.active_monitor_idx)
    ELSE Normal(<<Monitor(output, <<WorkspaceNew(output)>> \o s.workspaces, 0)>>, 0, 0)

\* add_output whose Normal arm never adds the empty workspace to the ones it
\* collected.
AddOutputNoEmpty(s, output) ==
    IF s.kind = "Normal"
    THEN LET id == OutputId(output)
             primary == At(s.monitors, s.primary_idx)
             taken == Retain(primary.workspaces, LAMBDA ws : ws.original_output = id)
             kept == Retain(primary.workspaces, LAMBDA ws : ws.original_output # id)
             bound == MapSeq(taken, LAMBDA ws : WorkspaceSetOutput(ws, output))
             monitors == SetAt(s.monitors, s.primary_idx,
                               [primary EXCEPT !.workspaces = kept])
         IN  Normal(Append(monitors, Monitor(output, bound, 0)),
                    s.primary_idx, s.active_monitor_idx)
    ELSE LET bound == MapSeq(Append(s.workspaces, WorkspaceNew(output)),
                             LAMBDA ws : WorkspaceSetOutput(ws, output))
         IN  Normal(<<Monitor(output, bound, 0)>>, 0, 0)

\* MonitorSet::add_output
AddOutput(s, output) ==
    LET id == OutputId(output)
    IN  IF s.kind = "Normal"
        THEN LET primary == At(s.monitors, s.primary_idx)
                 taken == Retain(primary.workspaces, LAMBDA ws : ws.original_output = id)
                 kept == Retain(primary.workspaces, LAMBDA ws : ws.original_output # id)
                 workspaces ==
                     IF \A i \in Idx(taken) : has_windows(At(taken, i))
                     THEN Append(taken, WorkspaceNew(output))
                     ELSE taken
                 bound == MapSeq(workspaces, LAMBDA ws : WorkspaceSetOutput(ws, output))
                 monitors == SetAt(s.monitors, s.primary_idx,
                                   [primary EXCEPT !.workspaces = kept])
             IN  Normal(Append(monitors, Monitor(output, bound, 0)),
                        s.primary_idx, s.active_monitor_idx)
        ELSE LET workspaces == Append(s.workspaces, WorkspaceNew(output))
                 bound == MapSeq(workspaces, LAMBDA ws : WorkspaceSetOutput(ws, output))
             IN  Normal(<<Monitor(output, bound, 0)>>, 0, 0)

\* remove_output that gives up the Normal variant whenever an output goes,
\* other monitors or not.
RemoveOutputToNoOutputs(s, output) ==
    IF s.kind = "NoOutputs" THEN Panic
    ELSE LET idx == MonitorPosition(s, output)
         IN  IF idx = -1 THEN Panic
             ELSE NoOutputs(Retain(MapSeq(At(s.monitors, idx).workspaces,
                                          LAMBDA ws : WorkspaceSetOutput(ws, NoOutput)),
                                   has_windows))

\* remove_output that puts the workspaces of the removed monitor after the
\* last workspace of the primary monitor.
RemoveOutputAppend(s, output) ==
    IF s.kind = "NoOutputs" THEN Panic
    ELSE LET idx == MonitorPosition(s, output)
         IN  IF idx = -1 THEN Panic
             ELSE
             LET monitors == RemoveAt(s.monitors, idx)
                 workspaces == Retain(MapSeq(At(s.monitors, idx).workspaces,
                                             LAMBDA ws : WorkspaceSetOutput(ws, NoOutput)),
                                      has_windows)
             IN  IF monitors = <<>> THEN NoOutputs(workspaces)
                 ELSE
                 LET primary_idx == IF s.primary_idx >= idx
                                    THEN saturating_sub1(s.primary_idx)
                                    ELSE s.primary_idx
                     active_monitor_idx == IF s.active_monitor_idx >= idx
                                           THEN saturating_sub1(s.active_monitor_idx)
                                           ELSE s.active_monitor_idx
                     primary == At(monitors, primary_idx)
                     rebound == MapSeq(workspaces,
                                       LAMBDA ws : WorkspaceSetOutput(ws, primary.output))
                 IN  Normal(SetAt(monitors, primary_idx,
                                  [primary EXCEPT !.workspaces = @ \o rebound]),
                            primary_idx, active_monitor_idx)

\* MonitorSet::remove_output
RemoveOutput(s, output) ==
    IF s.kind = "NoOutputs" THEN Panic
    ELSE LET idx == MonitorPosition(s, output)
         IN  IF idx = -1 THEN Panic
             ELSE
             LET monitor == At(s.monitors, idx)
                 monitors == RemoveAt(s.monitors, idx)
                 unbound == MapSeq(monitor.workspaces,
                                   LAMBDA ws : WorkspaceSetOutput(ws, NoOutput))
                 workspaces == Retain(unbound, has_windows)
             IN  IF monitors = <<>> THEN NoOutputs(workspaces)
                 ELSE
                 LET primary_idx == IF s.primary_idx >= idx
                                    THEN saturating_sub1(s.primary_idx)
                                    ELSE s.primary_idx
                     active_monitor_idx == IF s.active_monitor_idx >= idx
                                           THEN saturating_sub1(s.active_monitor_idx)
                                           ELSE s.active_monitor_idx
                     primary == At(monitors, primary_idx)
                     rebound == MapSeq(workspaces,
                                       LAMBDA ws : WorkspaceSetOutput(ws, primary.output))
                     n == Len(primary.workspaces)
                 IN  IF n = 0 THEN Panic  \* len() - 1 underflows, remove() panics
                     ELSE
                     LET empty == At(primary.workspaces, n - 1)
                         merged == Append(RemoveAt(primary.workspaces, n - 1) \o rebound,
                                          empty)
                     IN  Normal(SetAt(monitors, primary_idx,
                                      [primary EXCEPT !.workspaces = merged]),
                                primary_idx, active_monitor_idx)

\* add_window that never appends a fresh empty workspace after the last one.
AddWindowNoSentinel(s, monitor_idx, workspace_idx, window, activate) ==
    IF s.kind # "Normal" THEN Panic
    ELSE IF monitor_idx \notin Idx(s.monitors) THEN Panic
    ELSE LET monitor == At(s.monitors, monitor_idx)
         IN  IF workspace_idx \notin Idx(monitor.workspaces) THEN Panic
             ELSE
             LET workspace == WorkspaceAddWindow(At(monitor.workspaces, workspace_idx),
                                                 window, activate)
                 mon == [monitor EXCEPT
                            !.workspaces = SetAt(@, workspace_idx, workspace),
                            !.active_workspace_idx = IF activate THEN workspace_idx ELSE @]
             IN  [s EXCEPT !.monitors = SetAt(@, monitor_idx, mon),
                           !.active_monitor_idx = IF activate THEN monitor_idx ELSE @]

\* add_window that leaves the active monitor and the active workspace where
\* they are, activate or not.
AddWindowKeepPointers(s, monitor_idx, workspace_idx, window, activate) ==
    IF s.kind # "Normal" THEN Panic
    ELSE IF monitor_idx \notin Idx(s.monitors) THEN Panic
    ELSE LET monitor == At(s.monitors, monitor_idx)
         IN  IF workspace_idx \notin Idx(monitor.workspaces) THEN Panic
             ELSE
             LET workspace == WorkspaceAddWindow(At(monitor.workspaces, workspace_idx),
                                                 window, activate)
                 placed == SetAt(monitor.workspaces, workspace_idx, workspace)
                 workspaces ==
                     IF workspace_idx = Len(monitor.workspaces) - 1
                     THEN Append(placed, WorkspaceNew(monitor.output))
                     ELSE placed
             IN  [s EXCEPT !.monitors = SetAt(@, monitor_idx,
                                              [monitor EXCEPT !.workspaces = workspaces])]

\* MonitorSet::add_window
AddWindow(s, monitor_idx, workspace_idx, window, activate) ==
    IF s.kind # "Normal" THEN Panic
    ELSE IF monitor_idx \notin Idx(s.monitors) THEN Panic
    ELSE LET monitor == At(s.monitors, monitor_idx)
         IN  IF workspace_idx \notin Idx(monitor.workspaces) THEN Panic
             ELSE
             LET workspace == WorkspaceAddWindow(At(monitor.workspaces, workspace_idx),
                                                 window, activate)
                 placed == SetAt(monitor.workspaces, workspace_idx, workspace)
                 workspaces ==
                     IF workspace_idx = Len(monitor.workspaces) - 1
                     THEN Append(placed, WorkspaceNew(monitor.output))
                     ELSE placed
                 mon == [monitor EXCEPT
                            !.workspaces = workspaces,
                            !.active_workspace_idx = IF activate THEN workspace_idx ELSE @]
             IN  [s EXCEPT !.monitors = SetAt(@, monitor_idx, mon),
                           !.active_monitor_idx = IF activate THEN monitor_idx ELSE @]

\* MonitorSet::add_window_to_output
AddWindowToOutput(s, output, window, activate) ==
    IF s.kind # "Normal" THEN Panic
    ELSE LET monitor_idx == MonitorPosition(s, output)
         IN  IF monitor_idx = -1 THEN Panic
             ELSE AddWindow(s, monitor_idx,
                            At(s.monitors, monitor_idx).active_workspace_idx,
                            window, activate)

\* The body of remove_window's loop over one monitor's workspaces.
MonitorRemoveWindow(mon, window) ==
    LET idx == Position(mon.workspaces, LAMBDA ws : has_window(ws, window))
    IN  IF idx = -1 THEN mon
        ELSE LET ws == WorkspaceRemoveWindow(At(mon.workspaces, idx), window)
                 workspaces == SetAt(mon.workspaces, idx, ws)
             IN  IF /\ ~has_windows(ws)
                    /\ idx # mon.active_workspace_idx
                    /\ idx # Len(mon.workspaces) - 1
                 THEN [mon EXCEPT !.workspaces = RemoveAt(workspaces, idx)]
                 ELSE [mon EXCEPT !.workspaces = workspaces]

\* remove_window whose NoOutputs arm keeps a workspace that lost its last
\* window.
RemoveWindowKeepEmpty(s, window) ==
    IF s.kind = "Normal"
    THEN [s EXCEPT !.monitors = MapSeq(@, LAMBDA mon : MonitorRemoveWindow(mon, window))]
    ELSE LET idx == Position(s.workspaces, LAMBDA ws : has_window(ws, window))
         IN  IF idx = -1 THEN s
             ELSE [s EXCEPT !.workspaces =
                      SetAt(@, idx, WorkspaceRemoveWindow(At(s.workspaces, idx), window))]

\* MonitorSet::remove_window
RemoveWindow(s, window) ==
    IF s.kind = "Normal"
    THEN [s EXCEPT !.monitors = MapSeq(@, LAMBDA mon : MonitorRemoveWindow(mon, window))]
    ELSE LET idx == Position(s.workspaces, LAMBDA ws : has_window(ws, window))
         IN  IF idx = -1 THEN s
             ELSE LET ws == WorkspaceRemoveWindow(At(s.workspaces, idx), window)
                  IN  IF ~has_windows(ws)
                      THEN [s EXCEPT !.workspaces = RemoveAt(@, idx)]
                      ELSE [s EXCEPT !.workspaces = SetAt(@, idx, ws)]


\* The body of activate_window's loop over one monitor's workspaces.
MonitorActivateWindow(mon, window) ==
    LET idx == Position(mon.workspaces, LAMBDA ws : has_window(ws, window))
    IN  IF idx = -1 THEN mon
        ELSE [mon EXCEPT !.active_workspace_idx = idx,
                         !.workspaces = SetAt(@, idx,
                             WorkspaceActivateWindow(At(mon.workspaces, idx), window))]

\* MonitorSet::activate_window
ActivateWindow(s, window) ==
    IF s.kind # "Normal" THEN Panic
    ELSE LET holders == {m \in Idx(s.monitors) :
                            \E i \in Idx(At(s.monitors, m).workspaces) :
                                has_window(At(At(s.monitors, m).workspaces, i), window)}
         IN  [s EXCEPT !.monitors = MapSeq(@, LAMBDA mon : MonitorActivateWindow(mon, window)),
                       !.active_monitor_idx =
                           IF holders = {} THEN @
                           ELSE CHOOSE m \in holders : \A k \in holders : k <= m]

\* MonitorSet::activate_output
ActivateOutput(s, output) ==
    IF s.kind # "Normal" THEN s
    ELSE LET idx == MonitorPosition(s, output)
         IN  IF idx = -1 THEN Panic ELSE [s EXCEPT !.active_monitor_idx = idx]

\* MonitorSet::active_workspace followed by one Workspace operation F:
\* move_left .. focus_up, consume_into_column, expel_from_column
InActiveWorkspace(s, F(_)) ==
    IF s.kind # "Normal" THEN s
    ELSE LET monitor == At(s.monitors, s.active_monitor_idx)
         IN  IF monitor.active_workspace_idx \notin Idx(monitor.workspaces) THEN Panic
             ELSE [s EXCEPT !.monitors = SetAt(@, s.active_monitor_idx,
                      [monitor EXCEPT !.workspaces = SetAt(@, monitor.active_workspace_idx,
                          F(At(monitor.workspaces, monitor.active_workspace_idx)))])]

MoveLeft(s) == InActiveWorkspace(s, WorkspaceMoveLeft)
MoveRight(s) == InActiveWorkspace(s, WorkspaceMoveRight)
MoveDown(s) == InActiveWorkspace(s, WorkspaceMoveDown)
MoveUp(s) == InActiveWorkspace(s, WorkspaceMoveUp)
FocusLeft(s) == InActiveWorkspace(s, WorkspaceFocusLeft)
FocusRight(s) == InActiveWorkspace(s, WorkspaceFocusRight)
FocusDown(s) == InActiveWorkspace(s, WorkspaceFocusDown)
FocusUp(s) == InActiveWorkspace(s, WorkspaceFocusUp)
ConsumeIntoColumn(s) == InActiveWorkspace(s, WorkspaceConsumeIntoColumn)
ExpelFromColumn(s) == InActiveWorkspace(s, WorkspaceExpelFromColumn)

\* The active window of the active column of a workspace with columns.
ActiveWindowOf(workspace) ==
    LET column == At(workspace.columns, workspace.active_column_idx)
    IN  At(column.windows, column.active_window_idx)

\* MonitorSet::move_to_workspace_up
MoveToWorkspaceUp(s) ==
    IF s.kind # "Normal" THEN s
    ELSE LET monitor == At(s.monitors, s.active_monitor_idx)
             source_workspace_idx == monitor.active_workspace_idx
             new_idx == saturating_sub1(source_workspace_idx)
         IN  IF new_idx = source_workspace_idx THEN s
             ELSE IF source_workspace_idx \notin Idx(monitor.workspaces) THEN Panic
             ELSE
             LET workspace == At(monitor.workspaces, source_workspace_idx)
             IN  IF workspace.columns = <<>> THEN s
                 ELSE
                 LET window == ActiveWindowOf(workspace)
                     removed == WorkspaceRemoveWindow(workspace, window)
                     placed == SetAt(monitor.workspaces, source_workspace_idx, removed)
                     workspaces ==
                         IF /\ ~has_windows(removed)
                            /\ source_workspace_idx # Len(monitor.workspaces) - 1
                         THEN RemoveAt(placed, source_workspace_idx)
                         ELSE placed
                     t == [s EXCEPT !.monitors = SetAt(@, s.active_monitor_idx,
                              [monitor EXCEPT !.workspaces = workspaces])]
                 IN  AddWindow(t, s.active_monitor_idx, new_idx, window, TRUE)

\* MonitorSet::move_to_workspace_down
MoveToWorkspaceDown(s) ==
    IF s.kind # "Normal" THEN s
    ELSE LET monitor == At(s.monitors, s.active_monitor_idx)
             source_workspace_idx == monitor.active_workspace_idx
             new_idx == min(source_workspace_idx + 1, Len(monitor.workspaces) - 1)
         IN  IF new_idx = source_workspace_idx THEN s
             ELSE IF source_workspace_idx \notin Idx(monitor.workspaces) THEN Panic
             ELSE
             LET workspace == At(monitor.workspaces, source_workspace_idx)
             IN  IF workspace.columns = <<>> THEN s
                 ELSE
                 LET window == ActiveWindowOf(workspace)
                     removed == WorkspaceRemoveWindow(workspace, window)
                     placed == SetAt(monitor.workspaces, source_workspace_idx, removed)
                     gone == ~has_windows(removed)
                     workspaces == IF gone THEN RemoveAt(placed, source_workspace_idx)
                                   ELSE placed
                     t == [s EXCEPT !.monitors = SetAt(@, s.active_monitor_idx,
                              [monitor EXCEPT !.workspaces = workspaces])]
                 IN  AddWindow(t, s.active_monitor_idx,
                               IF gone THEN new_idx - 1 ELSE new_idx, window, TRUE)

\* MonitorSet::switch_workspace_up
SwitchWorkspaceUp(s) ==
    IF s.kind # "Normal" THEN s
    ELSE LET monitor == At(s.monitors, s.active_monitor_idx)
             source_workspace_idx == monitor.active_workspace_idx
             new_idx == saturating_sub1(source_workspace_idx)
         IN  IF new_idx = source_workspace_idx THEN s
             ELSE IF source_workspace_idx \notin Idx(monitor.workspaces) THEN Panic
             ELSE
             LET workspaces ==
                     IF /\ ~has_windows(At(monitor.workspaces, source_workspace_idx))
                        /\ source_workspace_idx # Len(monitor.workspaces) - 1
                     THEN RemoveAt(monitor.workspaces, source_workspace_idx)
                     ELSE monitor.workspaces
             IN  [s EXCEPT !.monitors = SetAt(@, s.active_monitor_idx,
                     [monitor EXCEPT !.workspaces = workspaces,
                                     !.active_workspace_idx = new_idx])]

\* MonitorSet::switch_workspace_down
SwitchWorkspaceDown(s) ==
    IF s.kind # "Normal" THEN s
    ELSE LET monitor == At(s.monitors, s.active_monitor_idx)
             source_workspace_idx == monitor.active_workspace_idx
             new_idx == min(source_workspace_idx + 1, Len(monitor.workspaces) - 1)
         IN  IF new_idx = source_workspace_idx THEN s
             ELSE IF source_workspace_idx \notin Idx(monitor.workspaces) THEN Panic
             ELSE
             LET gone == ~has_windows(At(monitor.workspaces, source_workspace_idx))
             IN  [s EXCEPT !.monitors = SetAt(@, s.active_monitor_idx,
                     [monitor EXCEPT
                         !.workspaces = IF gone THEN RemoveAt(@, source_workspace_idx) ELSE @,
                         !.active_workspace_idx = IF gone THEN new_idx - 1 ELSE new_idx])]

\* MonitorSet::verify_invariants: TRUE iff no assertion fails
VerifyInvariants(s) ==
    IF s.kind = "NoOutputs"
    THEN \A i \in Idx(s.workspaces) :
            /\ ~has_windows(At(s.workspaces, i))
            /\ WorkspaceVerifyInvariants(At(s.workspaces, i))
    ELSE /\ s.primary_idx <= Len(s.monitors)
         /\ s.active_monitor_idx <= Len(s.monitors)
         /\ \A idx \in Idx(s.monitors) :
               LET monitor == At(s.monitors, idx)
                   monitor_id == OutputId(monitor.output)
               IN  /\ monitor.workspaces # <<>>
                   /\ (idx = s.primary_idx \/
                       \E i \in Idx(monitor.workspaces) :
                           At(monitor.workspaces, i).original_output = monitor_id)
                   /\ \A i \in Idx(monitor.workspaces) :
                           WorkspaceVerifyInvariants(At(monitor.workspaces, i))


\* ----------------------------------------- Workspaces (layout/workspaces.rs)
\* struct Workspaces: the VecDeque of workspaces (each one by its id), the
\* external index of the active workspace, and the offset between external
\* and internal indices. No previous workspace, no switch in flight.
NoWorkspaceId == "none"
NoSwitch == [kind |-> "None"]

\* Options, as far as the sequence reads them.
Options(empty_workspace_above_first) ==
    [empty_workspace_above_first |-> empty_workspace_above_first]

\* Workspaces::new
WorkspacesNew(workspaces, options) ==
    [workspaces |-> workspaces,
     options |-> options,
     active_workspace_idx |-> 0,
     workspace_idx_offset |-> 0,
     previous_workspace_id |-> NoWorkspaceId,
     workspace_switch |-> NoSwitch]

\* The result of a sequence operation that panicked.
WorkspacesPanic ==
    [WorkspacesNew(<<>>, Options(FALSE)) EXCEPT !.workspace_switch = [kind |-> "Panic"]]

\* `as usize` of an isize: a negative value wraps to one beyond any sequence.
\* The modulus stands for 2^64, which is out of the range of the integers at
\* hand; no index or offset of the model comes near either.
UsizeModulus == 1048576
as_usize(v) == IF v < 0 THEN v + UsizeModulus ELSE v

\* Workspaces::to_internal_index, the debug_assert! apart
to_internal_index(w, external_index) ==
    as_usize(external_index + w.workspace_idx_offset)

\* Workspaces::to_external_index
to_external_index(w, internal_index) == internal_index - w.workspace_idx_offset

\* push_front that leaves workspace_idx_offset alone.
PushFrontSameOffset(w, workspace) ==
    [w EXCEPT !.workspaces = <<workspace>> \o @]

\* Workspaces::push_front
push_front(w, workspace) ==
    [w EXCEPT !.workspaces = <<workspace>> \o @,
              !.workspace_idx_offset = @ + 1]

\* Workspaces::pop_front, the sequence it leaves
pop_front(w) ==
    IF Len(w.workspaces) > 1
    THEN [w EXCEPT !.workspace_idx_offset = @ + 1,
                   !.workspaces = Tail(@)]
    ELSE WorkspacesPanic

\* Workspaces::push_back
push_back(w, workspace) == [w EXCEPT !.workspaces = Append(@, workspace)]

\* Workspaces::pop_back that pops the only workspace too.
PopBackToEmpty(w) ==
    IF Len(w.workspaces) > 0
    THEN [w EXCEPT !.workspace_idx_offset = @ + 1,
                   !.workspaces = SubSeq(@, 1, Len(@) - 1)]
    ELSE WorkspacesPanic

\* Workspaces::pop_back, the sequence it leaves
pop_back(w) ==
    IF Len(w.workspaces) > 1
    THEN [w EXCEPT !.workspace_idx_offset = @ + 1,
                   !.workspaces = SubSeq(@, 1, Len(@) - 1)]
    ELSE WorkspacesPanic

\* The debug_assert! of to_internal_index: TRUE iff it passes.
index_asserted(w, external_index) == external_index + w.workspace_idx_offset > 0

\* Index<WorkspaceIdx>: TRUE iff self[external_index] does not panic in a
\* build with (debug = TRUE) or without debug assertions.
Indexable(w, external_index, debug) ==
    /\ debug => index_asserted(w, external_index)
    /\ to_internal_index(w, external_index) \in Idx(w.workspaces)

\* Workspace::has_windows_or_name, a matter of the workspace alone: the
\* workspaces of EmptyWorkspaceIds have no window and no name.
has_windows_or_name(workspace) == workspace \notin EmptyWorkspaceIds

\* WorkspaceSwitch::Animation from one internal position to another.
Animation(from, to) == [kind |-> "Animation", from |-> from, to |-> to]

\* WorkspaceSwitch::current_idx: a position between the two ends of the
\* animation, whichever the clock says; the midpoint stands for the
\* positions strictly between.
CurrentIdxs(switch) ==
    {switch.from, switch.to, (switch.from + switch.to) \div 2}

\* WorkspaceSwitch::offset
SwitchOffset(switch, delta) ==
    IF switch.kind = "Animation"
    THEN Animation(switch.from + delta, switch.to + delta)
    ELSE switch

\* Workspaces::add_workspace_top, `ws` the workspace Workspace::new returns
add_workspace_top(w, ws) ==
    [push_front(w, ws) EXCEPT !.workspace_switch = SwitchOffset(@, 1)]

\* Workspaces::add_workspace_bottom, `ws` the workspace Workspace::new returns
add_workspace_bottom(w, ws) == push_back(w, ws)

\* Workspaces::activate_workspace; current_idx is what the switch in flight,
\* if any, reports as its current position.
activate_workspace(w, idx, current_idx, debug) ==
    IF w.active_workspace_idx = idx THEN w
    ELSE IF ~Indexable(w, w.active_workspace_idx, debug) THEN WorkspacesPanic
    ELSE IF debug /\ ~index_asserted(w, idx) THEN WorkspacesPanic
    ELSE [w EXCEPT
            !.previous_workspace_id =
                At(w.workspaces, to_internal_index(w, w.active_workspace_idx)),
            !.active_workspace_idx = idx,
            !.workspace_switch =
                Animation(IF w.workspace_switch.kind = "Animation" THEN current_idx
                          ELSE to_internal_index(w, w.active_workspace_idx),
                          to_internal_index(w, idx))]

\* Workspaces::previous_workspace_idx, NoWorkspaceIdx for None
NoWorkspaceIdx == [some |-> FALSE, idx |-> 0]
\* previous_workspace_idx that returns the position in the sequence as it is.
PreviousWorkspacePosition(w) ==
    LET found == {i \in Idx(w.workspaces) : At(w.workspaces, i) = w.previous_workspace_id}
    IN  IF found = {} THEN NoWorkspaceIdx
        ELSE [some |-> TRUE, idx |-> CHOOSE i \in found : \A j \in found : i <= j]

previous_workspace_idx(w) ==
    LET p == CHOOSE p \in Idx(w.workspaces) \cup {-1} :
                IF \E i \in Idx(w.workspaces) : At(w.workspaces, i) = w.previous_workspace_id
                THEN /\ p \in Idx(w.workspaces)
                     /\ At(w.workspaces, p) = w.previous_workspace_id
                ELSE p = -1
    IN  IF p = -1 THEN NoWorkspaceIdx
        ELSE [some |-> TRUE, idx |-> to_external_index(w, p)]

\* One turn of the loop of clean_up_workspaces, at internal_idx, and the turns
\* below it down to range_start.
RECURSIVE CleanUpFrom(_, _, _, _)
CleanUpFrom(w, internal_idx, range_start, debug) ==
    IF internal_idx < range_start THEN w
    ELSE IF debug /\ ~index_asserted(w, w.active_workspace_idx) THEN WorkspacesPanic
    ELSE IF to_internal_index(w, w.active_workspace_idx) = internal_idx
    THEN CleanUpFrom(w, internal_idx - 1, range_start, debug)
    ELSE IF internal_idx \notin Idx(w.workspaces) THEN WorkspacesPanic
    ELSE IF has_windows_or_name(At(w.workspaces, internal_idx))
    THEN CleanUpFrom(w, internal_idx - 1, range_start, debug)
    ELSE LET removed == [w EXCEPT !.workspaces = RemoveAt(@, internal_idx)]
             next == IF to_internal_index(removed, removed.active_workspace_idx)
                            > internal_idx
                     THEN [removed EXCEPT !.active_workspace_idx = @ - 1]
                     ELSE removed
         IN  CleanUpFrom(next, internal_idx - 1, range_start, debug)

\* Lines 201-209 of clean_up_workspaces: with the empty workspace above the
\* first one reserved and two workspaces left, both are empty and one goes.
CleanUpAllEmpty(w) ==
    IF ~(w.options.empty_workspace_above_first /\ Len(w.workspaces) = 2) THEN w
    ELSE IF has_windows_or_name(At(w.workspaces, 0)) THEN WorkspacesPanic
    ELSE IF has_windows_or_name(At(w.workspaces, 1)) THEN WorkspacesPanic
    ELSE IF w.workspace_idx_offset # 0 THEN WorkspacesPanic
    ELSE [w EXCEPT !.workspaces = RemoveAt(@, 1), !.active_workspace_idx = 0]

\* Lines 211-218 of clean_up_workspaces: `workspace_idx` is a name the
\* function does not bind, so its value is anyone's; top and bottom are the
\* workspaces Workspace::new returns.
CleanUpAddBack(w, workspace_idx, top, bottom) ==
    IF w = WorkspacesPanic THEN w
    ELSE LET below == IF workspace_idx = Len(w.workspaces) - 1
                      THEN add_workspace_bottom(w, bottom) ELSE w
         IN  IF w.options.empty_workspace_above_first /\ workspace_idx = 0
             THEN add_workspace_top(below, top) ELSE below

\* Workspaces::clean_up_workspaces
clean_up_workspaces(w, workspace_idx, top, bottom, debug) ==
    IF w.workspace_switch.kind # "None" THEN WorkspacesPanic
    ELSE IF w.workspaces = <<>> THEN WorkspacesPanic  \* len() - 1 underflows
    ELSE LET range_start == IF w.options.empty_workspace_above_first THEN 1 ELSE 0
             swept == CleanUpFrom(w, Len(w.workspaces) - 2, range_start, debug)
         IN  IF swept = WorkspacesPanic THEN WorkspacesPanic
             ELSE CleanUpAddBack(CleanUpAllEmpty(swept), workspace_idx, top, bottom)

\* ==================================================================== state
\* ------------------------------------------------------------ the windows
\* What a window (LayoutElement) holds of what the layout told it: the outputs
\* it entered and did not leave, the activation flag of its pending state and
\* the size last requested of it.
NoSize == [w |-> 0, h |-> 0]
NewClient == [outputs |-> {}, activated |-> FALSE, size |-> NoSize]
\* The windows the clients may map, none of them told anything yet.
NoClients == [window \in {"w1", "w2", "w3"} |-> NewClient]

\* The elements of a Vec.
Among(s) == {s[i] : i \in 1..Len(s)}

\* LayoutElement::min_size of each window, fixed for the run.
ClientMinSize(window) ==
    IF window = "w1" THEN Size(0, 0)
    ELSE IF window = "w2" THEN Size(300, 0) ELSE Size(2000, 0)

\* LayoutElement::output_enter, output_leave, set_activate and request_size,
\* on the windows `c`.
output_enter(c, window, output) ==
    [c EXCEPT ![window].outputs = @ \cup {OutputId(output)}]
output_leave(c, window, output) ==
    [c EXCEPT ![window].outputs = @ \ {OutputId(output)}]
set_activate(c, window, active) == [c EXCEPT ![window].activated = active]
request_size(c, window, size) == [c EXCEPT ![window].size = size]

\* `for win in windows { win.set_activate(false) }`
DeactivateAll(c, windows) ==
    [w \in DOMAIN c |-> IF w \in Among(windows) THEN set_activate(c, w, FALSE)[w]
                        ELSE c[w]]

\* Column::update_window_sizes, as the windows of the column hear it.
ColumnRequest(col, view_size, debug) ==
    update_window_sizes(
        [col EXCEPT !.windows = MapSeq(@, LAMBDA w : [min_size |-> ClientMinSize(w)])],
        view_size, debug)
ColumnUpdateWindowSizesTold(c, col, view_size, debug) ==
    [w \in DOMAIN c |->
        IF w \in Among(col.windows)
        THEN request_size(c, w, ColumnRequest(col, view_size, debug))[w]
        ELSE c[w]]

\* `for col in columns { col.update_window_sizes(view_size) }`
RECURSIVE ColumnsUpdateWindowSizesTold(_, _, _, _)
ColumnsUpdateWindowSizesTold(c, columns, view_size, debug) ==
    IF columns = <<>> THEN c
    ELSE ColumnsUpdateWindowSizesTold(
             ColumnUpdateWindowSizesTold(c, Head(columns), view_size, debug),
             Tail(columns), view_size, debug)

\* Workspace::set_view_size
WorkspaceSetViewSizeTold(c, ws, size, debug) ==
    IF ws.view_size = size THEN c
    ELSE ColumnsUpdateWindowSizesTold(c, ws.columns, size, debug)

\* Workspace::set_output
WorkspaceSetOutputTold(c, ws, output, debug) ==
    IF ws.output = output THEN c
    ELSE LET windows == WorkspaceWindows(ws)
             left == IF ws.output # NoOutput
                     THEN [w \in DOMAIN c |->
                              IF w \in Among(windows)
                              THEN output_leave(c, w, ws.output)[w] ELSE c[w]]
                     ELSE c
         IN  IF output = NoOutput THEN left
             ELSE LET sized == WorkspaceSetViewSizeTold(left, ws, output_size(output), debug)
                  IN  [w \in DOMAIN c |->
                          IF w \in Among(windows)
                          THEN output_enter(sized, w, output)[w] ELSE sized[w]]

\* `for ws in workspaces { ws.set_output(output) }`
RECURSIVE SetOutputsTold(_, _, _, _)
SetOutputsTold(c, workspaces, output, debug) ==
    IF workspaces = <<>> THEN c
    ELSE SetOutputsTold(WorkspaceSetOutputTold(c, Head(workspaces), output, debug),
                        Tail(workspaces), output, debug)

\* Workspace::add_window
WorkspaceAddWindowTold(c, ws, window, activate, debug) ==
    LET entered == IF ws.output # NoOutput THEN output_enter(c, window, ws.output) ELSE c
        flagged == set_activate(entered, window, activate)
        others == IF activate THEN DeactivateAll(flagged, WorkspaceWindows(ws))
                  ELSE flagged
    IN  ColumnUpdateWindowSizesTold(others, ColumnNew(window, ws.view_size),
                                    ws.view_size, debug)

\* Workspace::remove_window that requests no size of the windows left in the
\* column.
WorkspaceRemoveWindowToldNoSizes(c, ws, window, debug) ==
    LET left == IF ws.output # NoOutput THEN output_leave(c, window, ws.output) ELSE c
        column_idx == Position(ws.columns, LAMBDA col : ColumnContains(col, window))
        t == WorkspaceRemoveWindow(ws, window)
    IN  IF Len(At(ws.columns, column_idx).windows) = 1
        THEN IF t.columns = <<>> THEN left
             ELSE set_activate(left, ActiveWindowOf(t), TRUE)
        ELSE LET col == At(t.columns, column_idx)
             IN  IF ws.active_column_idx = column_idx
                 THEN set_activate(left, At(col.windows, col.active_window_idx), TRUE)
                 ELSE left

\* Workspace::remove_window (the window is in the workspace)
WorkspaceRemoveWindowTold(c, ws, window, debug) ==
    LET left == IF ws.output # NoOutput THEN output_leave(c, window, ws.output) ELSE c
        column_idx == Position(ws.columns, LAMBDA col : ColumnContains(col, window))
        t == WorkspaceRemoveWindow(ws, window)
    IN  IF Len(At(ws.columns, column_idx).windows) = 1
        THEN IF t.columns = <<>> THEN left
             ELSE set_activate(left, ActiveWindowOf(t), TRUE)
        ELSE LET col == At(t.columns, column_idx)
                 flagged == IF ws.active_column_idx = column_idx
                            THEN set_activate(left, At(col.windows, col.active_window_idx),
                                              TRUE)
                            ELSE left
             IN  ColumnUpdateWindowSizesTold(flagged, col, ws.view_size, debug)

\* Workspace::activate_window (the window is in the workspace)
WorkspaceActivateWindowTold(c, ws, window, debug) ==
    set_activate(DeactivateAll(c, SelectSeq(WorkspaceWindows(ws), LAMBDA w : w # window)),
                 window, TRUE)

\* Workspace::focus_left, focus_right, focus_up and focus_down: as far as the
\* focus went, the window that had it is told so, then the window that has it.
WorkspaceFocusTold(c, ws, t) ==
    IF t = ws THEN c
    ELSE set_activate(set_activate(c, ActiveWindowOf(ws), FALSE), ActiveWindowOf(t), TRUE)

WorkspaceFocusLeftTold(c, ws, debug) == WorkspaceFocusTold(c, ws, WorkspaceFocusLeft(ws))
WorkspaceFocusRightTold(c, ws, debug) == WorkspaceFocusTold(c, ws, WorkspaceFocusRight(ws))
WorkspaceFocusUpTold(c, ws, debug) == WorkspaceFocusTold(c, ws, WorkspaceFocusUp(ws))
WorkspaceFocusDownTold(c, ws, debug) == WorkspaceFocusTold(c, ws, WorkspaceFocusDown(ws))

\* Workspace::consume_into_column
WorkspaceConsumeIntoColumnTold(c, ws, debug) ==
    IF WorkspaceConsumeIntoColumn(ws) = ws THEN c
    ELSE LET window == At(At(ws.columns, ws.active_column_idx + 1).windows, 0)
             t == WorkspaceConsumeIntoColumn(ws)
         IN  ColumnUpdateWindowSizesTold(
                 WorkspaceRemoveWindowTold(c, ws, window, debug),
                 At(t.columns, t.active_column_idx), t.view_size, debug)

\* Workspace::expel_from_column
WorkspaceExpelFromColumnTold(c, ws, debug) ==
    IF WorkspaceExpelFromColumn(ws) = ws THEN c
    ELSE LET window == ActiveWindowOf(ws)
         IN  WorkspaceAddWindowTold(WorkspaceRemoveWindowTold(c, ws, window, debug),
                                    WorkspaceRemoveWindow(ws, window), window, TRUE, debug)

\* The workspace that holds `window`, if one does.
HoldersOf(s, window) ==
    {ws \in (IF s.kind = "Normal"
             THEN UNION {Among(At(s.monitors, m).workspaces) : m \in Idx(s.monitors)}
             ELSE Among(s.workspaces)) : has_window(ws, window)}

\* MonitorSet::add_output
AddOutputTold(c, s, output, debug) ==
    IF s.kind = "Normal"
    THEN SetOutputsTold(c, Retain(At(s.monitors, s.primary_idx).workspaces,
                                  LAMBDA ws : ws.original_output = OutputId(output)),
                        output, debug)
    ELSE SetOutputsTold(c, s.workspaces, output, debug)

\* MonitorSet::remove_output (of a connected output)
RemoveOutputTold(c, s, output, debug) ==
    LET idx == MonitorPosition(s, output)
        monitor == At(s.monitors, idx)
        monitors == RemoveAt(s.monitors, idx)
        unbound == SetOutputsTold(c, monitor.workspaces, NoOutput, debug)
        workspaces == Retain(MapSeq(monitor.workspaces,
                                    LAMBDA ws : WorkspaceSetOutput(ws, NoOutput)),
                             has_windows)
    IN  IF monitors = <<>> THEN unbound
        ELSE LET primary_idx == IF s.primary_idx >= idx
                                THEN saturating_sub1(s.primary_idx)
                                ELSE s.primary_idx
             IN  SetOutputsTold(unbound, workspaces, At(monitors, primary_idx).output,
                                debug)

\* MonitorSet::add_window (the indices are those of a workspace)
AddWindowTold(c, s, monitor_idx, workspace_idx, window, activate, debug) ==
    WorkspaceAddWindowTold(IF activate THEN set_activate(c, window, TRUE) ELSE c,
                           At(At(s.monitors, monitor_idx).workspaces, workspace_idx),
                           window, activate, debug)

\* MonitorSet::add_window_to_output (the output is connected)
AddWindowToOutputTold(c, s, output, window, activate, debug) ==
    AddWindowTold(c, s, MonitorPosition(s, output),
                  At(s.monitors, MonitorPosition(s, output)).active_workspace_idx,
                  window, activate, debug)

\* MonitorSet::remove_window
RemoveWindowTold(c, s, window, debug) ==
    IF HoldersOf(s, window) = {} THEN c
    ELSE WorkspaceRemoveWindowTold(c, CHOOSE ws \in HoldersOf(s, window) : TRUE,
                                   window, debug)

\* MonitorSet::activate_window
ActivateWindowTold(c, s, window, debug) ==
    IF HoldersOf(s, window) = {} THEN c
    ELSE WorkspaceActivateWindowTold(c, CHOOSE ws \in HoldersOf(s, window) : TRUE,
                                     window, debug)

\* A call that MonitorSet hands to its active workspace, if it has one.
ActiveWorkspaceTold(c, s, T(_, _, _), debug) ==
    IF s.kind # "Normal" THEN c
    ELSE LET monitor == At(s.monitors, s.active_monitor_idx)
         IN  IF monitor.active_workspace_idx \notin Idx(monitor.workspaces) THEN c
             ELSE T(c, At(monitor.workspaces, monitor.active_workspace_idx), debug)

\* MonitorSet::move_to_workspace_up and move_to_workspace_down, `moved` being
\* the layout they leave and new_idx the workspace the window goes to, as
\* the workspaces are numbered before the call.
MoveToWorkspaceTold(c, s, moved, new_idx, debug) ==
    IF moved = s \/ moved.kind = "Panic" THEN c
    ELSE LET monitor == At(s.monitors, s.active_monitor_idx)
             workspace == At(monitor.workspaces, monitor.active_workspace_idx)
             window == ActiveWindowOf(workspace)
         IN  WorkspaceAddWindowTold(
                 set_activate(WorkspaceRemoveWindowTold(c, workspace, window, debug),
                              window, TRUE),
                 At(monitor.workspaces, new_idx), window, TRUE, debug)

MoveToWorkspaceUpTold(c, s, debug) ==
    IF s.kind # "Normal" THEN c
    ELSE MoveToWorkspaceTold(c, s, MoveToWorkspaceUp(s),
             saturating_sub1(At(s.monitors, s.active_monitor_idx).active_workspace_idx),
             debug)

MoveToWorkspaceDownTold(c, s, debug) ==
    IF s.kind # "Normal" THEN c
    ELSE LET monitor == At(s.monitors, s.active_monitor_idx)
         IN  MoveToWorkspaceTold(c, s, MoveToWorkspaceDown(s),
                 min(monitor.active_workspace_idx + 1, Len(monitor.workspaces) - 1),
                 debug)

VARIABLES
    ms,         \* the MonitorSet
    panicked,   \* TRUE once an operation has panicked (the process is gone)
    connected,  \* the outputs the backend has connected and not disconnected
    seq,        \* a Workspaces sequence
    debug_assertions,  \* TRUE iff the build keeps debug_assert!
    called,     \* the last call made on seq or on column
    column,     \* a Column, its windows known by the min size they declare
    requested,  \* the size last requested of each window of column
    prior,      \* the workspace of seq that was active before the last switch
    clients,    \* what each window has been told: the outputs it is on, its
                \* activation flag and the size last requested of it
    streak,     \* the run of push_front calls and of the pop_front calls that
                \* came next on seq: how many of each, and the external index
                \* every workspace had `before` the run
    trip        \* the last disconnect of an output and, if it followed at once,
                \* its reconnect: phase 1 after remove_output(output) of the
                \* layout `before`, phase 2 after the add_output(output) that
                \* came next, phase 0 otherwise

\* The column of a run that makes no call on a column.
NoColumn == [windows |-> <<>>, active_window_idx |-> 0, width |-> ColumnWidthDefault]

NoStreak == [phase |-> "idle", pushed |-> 0, popped |-> 0, before |-> <<>>]

NoTrip == [phase |-> 0, output |-> NoOutput, before |-> MonitorSetNew]

\* All windows of the layout.
RECURSIVE FlattenWorkspaces(_)
FlattenWorkspaces(workspaces) ==
    IF workspaces = <<>> THEN <<>>
    ELSE WorkspaceWindows(Head(workspaces)) \o FlattenWorkspaces(Tail(workspaces))

RECURSIVE FlattenMonitors(_)
FlattenMonitors(monitors) ==
    IF monitors = <<>> THEN <<>>
    ELSE FlattenWorkspaces(Head(monitors).workspaces) \o FlattenMonitors(Tail(monitors))

AllWindows(s) ==
    IF s.kind = "Normal" THEN FlattenMonitors(s.monitors)
    ELSE FlattenWorkspaces(s.workspaces)

Mapped(s) == {At(AllWindows(s), i) : i \in Idx(AllWindows(s))}

MsInit ==
    /\ ms = MonitorSetNew
    /\ panicked = FALSE
    /\ connected = {}
    /\ trip = NoTrip
    /\ seq = WorkspacesNew(<<>>, Options(FALSE))
    /\ column = NoColumn
    /\ requested = <<>>
    /\ prior = NoWorkspaceId
    /\ clients = NoClients
    /\ streak = NoStreak
    /\ debug_assertions = FALSE
    /\ called = "new"

\* No monitor's list is longer than MaxWorkspaces (lists of empty workspaces
\* grow without limit over hotplug cycles; a call that would exceed the bound
\* is not made).
Bounded(s) ==
    \A m \in Idx(s.monitors) : Len(At(s.monitors, m).workspaces) <= MaxWorkspaces

\* One call: the operation ran to `result`, or panicked.
Ran(result) ==
    /\ ~panicked
    /\ Bounded(result)
    /\ IF result.kind = "Panic"
       THEN panicked' = TRUE /\ ms' = ms
       ELSE panicked' = FALSE /\ ms' = result
    /\ UNCHANGED <<seq, streak, debug_assertions, called, column, requested, prior, clients>>

\* ------------------------------------------------------------------ actions
\* The backend connects an output that is not connected.
DoAddOutput(output) ==
    /\ output \notin connected
    /\ Ran(AddOutput(ms, output))
    /\ connected' = connected \cup {output}
    /\ trip' = IF trip.phase = 1 /\ trip.output = output
               THEN [trip EXCEPT !.phase = 2]
               ELSE NoTrip

\* The backend disconnects a connected output; with none connected, the call
\* is the fatal one of the NoOutputs arm.
DoRemoveOutput(output) ==
    /\ output \in connected \/ connected = {}
    /\ Ran(RemoveOutput(ms, output))
    /\ connected' = connected \ {output}
    /\ trip' = IF RemoveOutput(ms, output).kind = "Panic" THEN NoTrip
               ELSE [phase |-> 1, output |-> output, before |-> ms]

\* A new window is mapped on a workspace of a monitor. A window is in at most
\* one workspace, and the indices are those of an existing workspace.
DoAddWindow(monitor_idx, workspace_idx, window, activate) ==
    /\ ms.kind = "Normal"
    /\ window \notin Mapped(ms)
    /\ monitor_idx \in Idx(ms.monitors)
    /\ workspace_idx \in Idx(At(ms.monitors, monitor_idx).workspaces)
    /\ Ran(AddWindow(ms, monitor_idx, workspace_idx, window, activate))
    /\ UNCHANGED connected
    /\ trip' = NoTrip

DoAddWindowToOutput(output, window, activate) ==
    /\ ms.kind = "Normal"
    /\ window \notin Mapped(ms)
    /\ output \in connected
    /\ Ran(AddWindowToOutput(ms, output, window, activate))
    /\ UNCHANGED connected
    /\ trip' = NoTrip

\* A window is unmapped; the call is also made for a window the layout does
\* not hold.
DoRemoveWindow(window) ==
    /\ Ran(RemoveWindow(ms, window))
    /\ UNCHANGED connected
    /\ trip' = NoTrip

DoActivateWindow(window) ==
    /\ ms.kind = "Normal"
    /\ window \in Mapped(ms)
    /\ Ran(ActivateWindow(ms, window))
    /\ UNCHANGED connected
    /\ trip' = NoTrip

DoActivateOutput(output) ==
    /\ output \in connected
    /\ Ran(ActivateOutput(ms, output))
    /\ UNCHANGED connected
    /\ trip' = NoTrip

\* A key binding without arguments.
Key(result) ==
    /\ Ran(result)
    /\ UNCHANGED connected
    /\ trip' = NoTrip

DoMoveLeft == Key(MoveLeft(ms))
DoMoveRight == Key(MoveRight(ms))
DoMoveDown == Key(MoveDown(ms))
DoMoveUp == Key(MoveUp(ms))
DoFocusLeft == Key(FocusLeft(ms))
DoFocusRight == Key(FocusRight(ms))
DoFocusDown == Key(FocusDown(ms))
DoFocusUp == Key(FocusUp(ms))
DoMoveToWorkspaceUp == Key(MoveToWorkspaceUp(ms))
DoMoveToWorkspaceDown == Key(MoveToWorkspaceDown(ms))
DoSwitchWorkspaceUp == Key(SwitchWorkspaceUp(ms))
DoSwitchWorkspaceDown == Key(SwitchWorkspaceDown(ms))
DoConsumeIntoColumn == Key(ConsumeIntoColumn(ms))
DoExpelFromColumn == Key(ExpelFromColumn(ms))

MonitorIdxs == 0..(Cardinality(Outputs) - 1)
WorkspaceIdxs == 0..(MaxWorkspaces - 1)

MsNext ==
    \/ \E output \in Outputs : DoAddOutput(output)
    \/ \E output \in Outputs : DoRemoveOutput(output)
    \/ \E monitor_idx \in MonitorIdxs, workspace_idx \in WorkspaceIdxs,
          window \in Windows, activate \in BOOLEAN :
          DoAddWindow(monitor_idx, workspace_idx, window, activate)
    \/ \E output \in Outputs, window \in Windows, activate \in BOOLEAN :
          DoAddWindowToOutput(output, window, activate)
    \/ \E window \in Windows : DoRemoveWindow(window)
    \/ \E window \in Windows : DoActivateWindow(window)
    \/ \E output \in Outputs : DoActivateOutput(output)
    \/ DoMoveLeft \/ DoMoveRight \/ DoMoveDown \/ DoMoveUp
    \/ DoFocusLeft \/ DoFocusRight \/ DoFocusDown \/ DoFocusUp
    \/ DoMoveToWorkspaceUp \/ DoMoveToWorkspaceDown
    \/ DoSwitchWorkspaceUp \/ DoSwitchWorkspaceDown
    \/ DoConsumeIntoColumn \/ DoExpelFromColumn

vars == <<ms, panicked, connected, trip, seq, streak, debug_assertions, called,
          column, requested, prior, clients>>

Init == MsInit
Next == MsNext
Spec == Init /\ [][Next]_vars


\* ---------------------------------------------------------- hotplug only
\* Three outputs, and only the calls of the backend and of mapping and
\* unmapping windows: the runs the two layout invariants of the module
\* documentation (layout.rs, lines 6-17) are about.
Outputs3 == Outputs \cup {[name |-> "C"]}
HotplugWindows == {"w1"}

HotplugNext ==
    \/ \E output \in Outputs3 : DoAddOutput(output)
    \/ \E output \in Outputs3 : DoRemoveOutput(output)
    \/ \E monitor_idx \in 0..(Cardinality(Outputs3) - 1), workspace_idx \in WorkspaceIdxs,
          window \in HotplugWindows :
          DoAddWindow(monitor_idx, workspace_idx, window, TRUE)
    \/ \E window \in HotplugWindows : DoRemoveWindow(window)

SpecHotplug == Init /\ [][HotplugNext]_vars

\* ------------------------------------------------------- window calls only
\* The layouts right after the backend has connected its outputs.
FreshLayouts ==
    {AddOutput(MonitorSetNew, a) : a \in Outputs}
    \cup UNION {{AddOutput(AddOutput(MonitorSetNew, a), b) : b \in Outputs \ {a}} :
                a \in Outputs}

WinInit ==
    /\ ms \in FreshLayouts
    /\ panicked = FALSE
    /\ connected = {At(ms.monitors, m).output : m \in Idx(ms.monitors)}
    /\ trip = NoTrip
    /\ seq = WorkspacesNew(<<>>, Options(FALSE))
    /\ column = NoColumn
    /\ requested = <<>>
    /\ prior = NoWorkspaceId
    /\ clients = NoClients
    /\ streak = NoStreak
    /\ debug_assertions = FALSE
    /\ called = "new"

WinNext ==
    \/ \E monitor_idx \in MonitorIdxs, workspace_idx \in WorkspaceIdxs,
          window \in Windows, activate \in BOOLEAN :
          DoAddWindow(monitor_idx, workspace_idx, window, activate)
    \/ \E window \in Windows : DoRemoveWindow(window)

SpecWin == WinInit /\ [][WinNext]_vars


\* ------------------------------------------------- workspace sequence calls
SeqIds(w) == {At(w.workspaces, i) : i \in Idx(w.workspaces)}

\* The sequences Workspaces::new can be given: distinct workspaces, fewer than
\* MaxSeqLen of them.
InitialWorkspaces ==
    {<<>>} \cup {<<a>> : a \in WorkspaceIds}
           \cup {<<a, b>> : a, b \in WorkspaceIds}

SeqInit ==
    /\ \E empty_workspace_above_first \in BOOLEAN :
          seq \in {WorkspacesNew(workspaces, Options(empty_workspace_above_first)) :
                     workspaces \in
                       {s \in InitialWorkspaces :
                           /\ Len(s) < MaxSeqLen
                           /\ \A i, j \in 1..Len(s) : i # j => s[i] # s[j]}}
    /\ debug_assertions \in BOOLEAN
    /\ called = "new"
    /\ streak = NoStreak
    /\ panicked = FALSE
    /\ ms = MonitorSetNew
    /\ connected = {}
    /\ trip = NoTrip
    /\ column = NoColumn
    /\ requested = <<>>
    /\ prior = NoWorkspaceId
    /\ clients = NoClients

\* The external index of every workspace of the sequence.
ExternalIndices(w) ==
    [i \in 1..Len(w.workspaces) |->
        [id |-> w.workspaces[i], idx |-> to_external_index(w, i - 1)]]

\* One call on the sequence: it ran to `result`, or panicked. The offset is
\* kept below MaxOffset.
SeqRan(result) ==
    /\ ~panicked
    /\ result.workspace_idx_offset <= MaxOffset
    /\ IF result = WorkspacesPanic
       THEN panicked' = TRUE /\ seq' = seq
       ELSE panicked' = FALSE /\ seq' = result
    /\ UNCHANGED <<ms, connected, trip, debug_assertions, column, requested, clients>>

\* The call `call` is the one being made on seq; only activate_workspace
\* switches workspaces.
Called(call) ==
    /\ called' = call
    /\ call # "activate_workspace" => prior' = prior

DoPushFront(workspace) ==
    /\ workspace \notin SeqIds(seq)
    /\ Len(seq.workspaces) < MaxSeqLen
    /\ SeqRan(push_front(seq, workspace))
    /\ Called("push_front")
    /\ streak' = IF streak.phase = "pushing"
                 THEN [streak EXCEPT !.pushed = @ + 1]
                 ELSE [phase |-> "pushing", pushed |-> 1, popped |-> 0,
                       before |-> ExternalIndices(seq)]

DoPopFront ==
    /\ SeqRan(pop_front(seq))
    /\ Called("pop_front")
    /\ streak' = IF pop_front(seq) = WorkspacesPanic THEN NoStreak
                 ELSE IF streak.phase \in {"pushing", "popping"}
                 THEN [streak EXCEPT
                          !.popped = @ + 1,
                          !.phase = IF streak.popped + 1 = streak.pushed
                                    THEN "done" ELSE "popping"]
                 ELSE NoStreak

DoPushBack(workspace) ==
    /\ workspace \notin SeqIds(seq)
    /\ Len(seq.workspaces) < MaxSeqLen
    /\ SeqRan(push_back(seq, workspace))
    /\ Called("push_back")
    /\ streak' = NoStreak

DoPopBack ==
    /\ SeqRan(pop_back(seq))
    /\ Called("pop_back")
    /\ streak' = NoStreak

\* Workspace::new returns a workspace that is not in the sequence.
DoAddWorkspaceTop(ws) ==
    /\ ws \notin SeqIds(seq)
    /\ Len(seq.workspaces) < MaxSeqLen
    /\ SeqRan(add_workspace_top(seq, ws))
    /\ Called("add_workspace_top")
    /\ streak' = NoStreak

DoAddWorkspaceBottom(ws) ==
    /\ ws \notin SeqIds(seq)
    /\ Len(seq.workspaces) < MaxSeqLen
    /\ SeqRan(add_workspace_bottom(seq, ws))
    /\ Called("add_workspace_bottom")
    /\ streak' = NoStreak

\* The external indices of the workspaces, and one beyond at either end.
ActivateIdxs(w) == {to_external_index(w, i) : i \in -1..Len(w.workspaces)}

DoActivateWorkspace(idx) ==
    /\ \E current_idx \in IF seq.workspace_switch.kind = "Animation"
                           THEN CurrentIdxs(seq.workspace_switch) ELSE {0} :
          SeqRan(activate_workspace(seq, idx, current_idx, debug_assertions))
    /\ Called("activate_workspace")
    /\ streak' = NoStreak
    /\ prior' = IF \/ idx = seq.active_workspace_idx
                   \/ activate_workspace(seq, idx, 0, debug_assertions) = WorkspacesPanic
                THEN prior
                ELSE At(seq.workspaces, to_internal_index(seq, seq.active_workspace_idx))

\* The external indices of the workspaces of the sequence.
SwitchIdxs(w) == {to_external_index(w, i) : i \in Idx(w.workspaces)}

\* The sequence is built up and taken down at both ends while the active
\* workspace is switched.
SwitchNext ==
    \/ \E workspace \in WorkspaceIds : DoPushFront(workspace)
    \/ DoPopFront
    \/ \E workspace \in WorkspaceIds : DoPushBack(workspace)
    \/ DoPopBack
    \/ \E idx \in SwitchIdxs(seq) : DoActivateWorkspace(idx)

SpecSwitch == SeqInit /\ [][SwitchNext]_vars

\* The tail of clean_up_workspaces reads a `workspace_idx` of any value and
\* may add workspaces at both ends.
DoCleanUpWorkspaces(workspace_idx, top, bottom) ==
    /\ top # bottom
    /\ {top, bottom} \cap SeqIds(seq) = {}
    /\ Len(clean_up_workspaces(seq, workspace_idx, top, bottom,
                               debug_assertions).workspaces) <= MaxSeqLen
    /\ SeqRan(clean_up_workspaces(seq, workspace_idx, top, bottom, debug_assertions))
    /\ Called("clean_up_workspaces")
    /\ streak' = NoStreak

SeqNext ==
    \/ \E workspace \in WorkspaceIds : DoPushFront(workspace)
    \/ DoPopFront
    \/ \E workspace \in WorkspaceIds : DoPushBack(workspace)
    \/ DoPopBack
    \/ \E ws \in NewWorkspaceIds : DoAddWorkspaceTop(ws)
    \/ \E ws \in NewWorkspaceIds : DoAddWorkspaceBottom(ws)
    \/ \E workspace_idx \in -1..MaxSeqLen, top, bottom \in NewWorkspaceIds :
          DoCleanUpWorkspaces(workspace_idx, top, bottom)

SpecSeq == SeqInit /\ [][SeqNext]_vars


\* ------------------------------------------------------------- column calls
\* The longest column add_window is let to build.
MaxColumnWindows == 3
\* The min widths a window may declare (0: none) and the windows by them.
MinWidths == {0, 300, 2000}
ColumnWindows == {[min_size |-> Size(w, 0)] : w \in MinWidths}
\* The view sizes a column may be given.
ViewSizes == {Size(w, h) : w \in {I32Min, 0, 1280, I32Max}, h \in {I32Min, 30, 720}}
\* The widths set_width may be given.
ColumnWidths ==
    {Proportion(1, 2), Proportion(1, 4), Proportion(2, 1), Fixed(500), Fixed(I32Min)}

\* One call on the column left it as `col` and ended in update_window_sizes:
\* every window got the request, or the call panicked.
ColumnRan(col, view_size, call) ==
    LET size == update_window_sizes(col, view_size, debug_assertions)
    IN  /\ ~panicked
        /\ IF size = NoRequest
           THEN panicked' = TRUE /\ UNCHANGED <<column, requested>>
           ELSE /\ panicked' = FALSE
                /\ column' = col
                /\ requested' = [i \in 1..Len(col.windows) |-> size]
        /\ called' = call
        /\ UNCHANGED <<ms, connected, trip, seq, streak, debug_assertions, prior, clients>>

\* Column::new(window, view_size) in either build, where it returns.
ColumnInit ==
    /\ debug_assertions \in BOOLEAN
    /\ \E window \in ColumnWindows, view_size \in ViewSizes :
          /\ update_window_sizes(ColumnNew(window, view_size), view_size,
                                 debug_assertions) # NoRequest
          /\ column = ColumnNew(window, view_size)
          /\ requested = <<update_window_sizes(column, view_size, debug_assertions)>>
    /\ prior = NoWorkspaceId
    /\ clients = NoClients
    /\ called = "new"
    /\ panicked = FALSE
    /\ ms = MonitorSetNew
    /\ connected = {}
    /\ trip = NoTrip
    /\ seq = WorkspacesNew(<<>>, Options(FALSE))
    /\ streak = NoStreak

DoColumnAddWindow(view_size, window) ==
    /\ Len(column.windows) < MaxColumnWindows
    /\ ColumnRan(ColumnAddWindow(column, view_size, window), view_size, "add_window")

DoColumnSetWidth(view_size, width) ==
    ColumnRan(ColumnSetWidth(column, view_size, width), view_size, "set_width")

\* Workspace::set_view_size, for this column
DoUpdateWindowSizes(view_size) ==
    ColumnRan(column, view_size, "update_window_sizes")

ColumnNext ==
    \/ \E view_size \in ViewSizes, window \in ColumnWindows :
          DoColumnAddWindow(view_size, window)
    \/ \E view_size \in ViewSizes, width \in ColumnWidths :
          DoColumnSetWidth(view_size, width)
    \/ \E view_size \in ViewSizes : DoUpdateWindowSizes(view_size)

SpecColumn == ColumnInit /\ [][ColumnNext]_vars


\* ------------------------------------------------ calls on a single output
\* The windows the clients may map on the one output of SpecTiling.
TilingWindows == {"w1", "w2", "w3"}

\* One output is connected.
TilingInit ==
    /\ ms = AddOutput(MonitorSetNew, [name |-> "A"])
    /\ panicked = FALSE
    /\ connected = {[name |-> "A"]}
    /\ trip = NoTrip
    /\ seq = WorkspacesNew(<<>>, Options(FALSE))
    /\ column = NoColumn
    /\ requested = <<>>
    /\ prior = NoWorkspaceId
    /\ clients = NoClients
    /\ streak = NoStreak
    /\ debug_assertions = FALSE
    /\ called = "new"

TilingNext ==
    \/ \E window \in TilingWindows, activate \in BOOLEAN :
          DoAddWindowToOutput([name |-> "A"], window, activate)
    \/ \E window \in TilingWindows : DoRemoveWindow(window)
    \/ DoMoveLeft \/ DoMoveRight \/ DoMoveDown \/ DoMoveUp
    \/ DoFocusLeft \/ DoFocusRight \/ DoFocusDown \/ DoFocusUp
    \/ DoConsumeIntoColumn
    \/ DoExpelFromColumn
    \/ DoMoveToWorkspaceUp \/ DoMoveToWorkspaceDown
    \/ DoSwitchWorkspaceUp \/ DoSwitchWorkspaceDown

SpecTiling == TilingInit /\ [][TilingNext]_vars

\* ------------------------------------- moving windows in the single column
\* A call on the column that ends without update_window_sizes: the window
\* that went from position `from` to position `to` (and the one it traded
\* places with) keeps the size it was last asked to take.
ColumnKept(col, from, to, call) ==
    /\ ~panicked
    /\ column # NoColumn
    /\ column' = col
    /\ requested' = SwapAt(requested, from, to)
    /\ called' = call
    /\ UNCHANGED <<ms, panicked, connected, trip, seq, streak, debug_assertions, prior,
                   clients>>

DoColumnFocusUp == ColumnKept(ColumnFocusUp(column), 0, 0, "focus_up")
DoColumnFocusDown == ColumnKept(ColumnFocusDown(column), 0, 0, "focus_down")
DoColumnMoveUp ==
    ColumnKept(ColumnMoveUp(column), column.active_window_idx,
               ColumnMoveUp(column).active_window_idx, "move_up")
DoColumnMoveDown ==
    ColumnKept(ColumnMoveDown(column), column.active_window_idx,
               ColumnMoveDown(column).active_window_idx, "move_down")

\* The view size the single column of SpecMoves is laid out for.
MovesViewSize == Size(1280, 720)

\* Either one output is connected and the keys act on its workspaces, or there
\* is one column and the calls act on it.
MovesInit == TilingInit \/ ColumnInit

MovesNext ==
    \/ TilingNext
    \/ \E window \in ColumnWindows :
          column # NoColumn /\ DoColumnAddWindow(MovesViewSize, window)
    \/ DoColumnFocusUp \/ DoColumnFocusDown
    \/ DoColumnMoveUp \/ DoColumnMoveDown

SpecMoves == MovesInit /\ [][MovesNext]_vars

\* ------------------------------------------- the layout and what it tells
\* One call: the operation ran to `result` and left the windows with `told`,
\* or panicked.
ClientsRan(result, told) ==
    /\ ~panicked
    /\ Bounded(result)
    /\ IF result.kind = "Panic"
       THEN panicked' = TRUE /\ ms' = ms /\ clients' = clients
       ELSE panicked' = FALSE /\ ms' = result /\ clients' = told
    /\ trip' = NoTrip
    /\ UNCHANGED <<seq, streak, debug_assertions, called, column, requested, prior>>

ClientsAddOutput(output) ==
    /\ output \notin connected
    /\ ClientsRan(AddOutput(ms, output),
                  AddOutputTold(clients, ms, output, debug_assertions))
    /\ connected' = connected \cup {output}

ClientsRemoveOutput(output) ==
    /\ output \in connected
    /\ ClientsRan(RemoveOutput(ms, output),
                  RemoveOutputTold(clients, ms, output, debug_assertions))
    /\ connected' = connected \ {output}

\* A new window, told nothing yet, is mapped on a workspace of a monitor.
ClientsAddWindow(monitor_idx, workspace_idx, window, activate) ==
    /\ ms.kind = "Normal"
    /\ window \notin Mapped(ms)
    /\ monitor_idx \in Idx(ms.monitors)
    /\ workspace_idx \in Idx(At(ms.monitors, monitor_idx).workspaces)
    /\ ClientsRan(AddWindow(ms, monitor_idx, workspace_idx, window, activate),
                  AddWindowTold([clients EXCEPT ![window] = NewClient], ms, monitor_idx,
                                workspace_idx, window, activate, debug_assertions))
    /\ UNCHANGED connected

ClientsRemoveWindow(window) ==
    /\ window \in Mapped(ms)
    /\ ClientsRan(RemoveWindow(ms, window),
                  RemoveWindowTold(clients, ms, window, debug_assertions))
    /\ UNCHANGED connected

ClientsActivateWindow(window) ==
    /\ ms.kind = "Normal"
    /\ window \in Mapped(ms)
    /\ ClientsRan(ActivateWindow(ms, window),
                  ActivateWindowTold(clients, ms, window, debug_assertions))
    /\ UNCHANGED connected

\* A key binding.
ClientsKey(result, told) ==
    /\ ClientsRan(result, told)
    /\ UNCHANGED connected

\* move_left, move_right, move_up, move_down, switch_workspace_up and
\* switch_workspace_down tell the windows nothing.
ClientsMoveLeft == ClientsKey(MoveLeft(ms), clients)
ClientsMoveRight == ClientsKey(MoveRight(ms), clients)
ClientsMoveUp == ClientsKey(MoveUp(ms), clients)
ClientsMoveDown == ClientsKey(MoveDown(ms), clients)
ClientsSwitchWorkspaceUp == ClientsKey(SwitchWorkspaceUp(ms), clients)
ClientsSwitchWorkspaceDown == ClientsKey(SwitchWorkspaceDown(ms), clients)
ClientsFocusLeft ==
    ClientsKey(FocusLeft(ms),
               ActiveWorkspaceTold(clients, ms, WorkspaceFocusLeftTold, debug_assertions))
ClientsFocusRight ==
    ClientsKey(FocusRight(ms),
               ActiveWorkspaceTold(clients, ms, WorkspaceFocusRightTold, debug_assertions))
ClientsFocusUp ==
    ClientsKey(FocusUp(ms),
               ActiveWorkspaceTold(clients, ms, WorkspaceFocusUpTold, debug_assertions))
ClientsFocusDown ==
    ClientsKey(FocusDown(ms),
               ActiveWorkspaceTold(clients, ms, WorkspaceFocusDownTold, debug_assertions))
ClientsConsumeIntoColumn ==
    ClientsKey(ConsumeIntoColumn(ms),
               ActiveWorkspaceTold(clients, ms, WorkspaceConsumeIntoColumnTold,
                                   debug_assertions))
ClientsExpelFromColumn ==
    ClientsKey(ExpelFromColumn(ms),
               ActiveWorkspaceTold(clients, ms, WorkspaceExpelFromColumnTold,
                                   debug_assertions))
ClientsMoveToWorkspaceUp ==
    ClientsKey(MoveToWorkspaceUp(ms), MoveToWorkspaceUpTold(clients, ms, debug_assertions))
ClientsMoveToWorkspaceDown ==
    ClientsKey(MoveToWorkspaceDown(ms),
               MoveToWorkspaceDownTold(clients, ms, debug_assertions))

ClientsNext ==
    \/ \E output \in Outputs : ClientsAddOutput(output)
    \/ \E output \in Outputs : ClientsRemoveOutput(output)
    \/ \E monitor_idx \in MonitorIdxs, workspace_idx \in WorkspaceIdxs,
          window \in Windows, activate \in BOOLEAN :
          ClientsAddWindow(monitor_idx, workspace_idx, window, activate)
    \/ \E window \in Windows : ClientsRemoveWindow(window)
    \/ \E window \in Windows : ClientsActivateWindow(window)
    \/ ClientsMoveLeft \/ ClientsMoveRight \/ ClientsMoveUp \/ ClientsMoveDown
    \/ ClientsFocusLeft \/ ClientsFocusRight \/ ClientsFocusUp \/ ClientsFocusDown
    \/ ClientsConsumeIntoColumn \/ ClientsExpelFromColumn
    \/ ClientsMoveToWorkspaceUp \/ ClientsMoveToWorkspaceDown
    \/ ClientsSwitchWorkspaceUp \/ ClientsSwitchWorkspaceDown

SpecClients == MsInit /\ [][ClientsNext]_vars

\* One output is connected and three windows come and go on its workspaces.
FocusNext ==
    \/ \E workspace_idx \in WorkspaceIdxs, window \in TilingWindows, activate \in BOOLEAN :
          ClientsAddWindow(0, workspace_idx, window, activate)
    \/ \E window \in TilingWindows : ClientsRemoveWindow(window)
    \/ \E window \in TilingWindows : ClientsActivateWindow(window)
    \/ ClientsMoveLeft \/ ClientsMoveRight \/ ClientsMoveUp \/ ClientsMoveDown
    \/ ClientsFocusLeft \/ ClientsFocusRight \/ ClientsFocusUp \/ ClientsFocusDown
    \/ ClientsConsumeIntoColumn \/ ClientsExpelFromColumn

SpecFocus == TilingInit /\ [][FocusNext]_vars

\* ================================================================ properties
\* The monitor of `output` in layout s (Normal), or -1.
MonitorOf(s, output) == MonitorPosition(s, output)

\* The windows of a workspace, column by column, top to bottom.
Arrangement(ws) == MapSeq(ws.columns, LAMBDA col : col.windows)

\* The window-bearing workspaces of a list, in order, each by its arrangement.
Content(workspaces) == MapSeq(Retain(workspaces, has_windows), Arrangement)

\* Layout `after` is layout `before` as far as the round trip of `output` goes:
\* the monitor of `output` holds the same window-bearing workspaces in the same
\* order, each bound to `output`; every other monitor holds the window-bearing
\* workspaces it held; no window-bearing workspace whose original_output is
\* `output` is on another monitor.
RoundTripHolds(before, after, output) ==
    /\ after.kind = "Normal"
    /\ MonitorOf(after, output) # -1
    /\ LET was == At(before.monitors, MonitorOf(before, output))
           is == At(after.monitors, MonitorOf(after, output))
       IN  /\ Content(is.workspaces) = Content(was.workspaces)
           /\ \A i \in Idx(is.workspaces) : At(is.workspaces, i).output = output
    /\ \A m \in Idx(before.monitors) :
          LET other == At(before.monitors, m)
          IN  other.output # output =>
                /\ MonitorOf(after, other.output) # -1
                /\ Content(At(after.monitors, MonitorOf(after, other.output)).workspaces)
                     = Content(other.workspaces)
    /\ \A m \in Idx(after.monitors) :
          LET other == At(after.monitors, m)
          IN  other.output # output =>
                \A i \in Idx(other.workspaces) :
                    has_windows(At(other.workspaces, i)) =>
                        At(other.workspaces, i).original_output # OutputId(output)

\* C1: in state Normal, remove_output(O) followed at once by add_output(O)
\* leaves O's monitor with the workspaces it held (same windows, same columns,
\* same order), each bound to O, leaves every other monitor's workspaces as
\* they were, and leaves no workspace of origin O on another monitor. Read
\* here in its weakest form: only workspaces that hold windows are compared.
C1_AffinityRoundTrip ==
    (trip.phase = 2 /\ ~panicked /\ trip.before.kind = "Normal")
        => RoundTripHolds(trip.before, ms, trip.output)


\* The columns of a workspace in order, the windows of each, and the active
\* column and window.
Layout(ws) ==
    [columns |-> MapSeq(ws.columns,
                        LAMBDA col : [windows |-> col.windows,
                                      active_window_idx |-> col.active_window_idx]),
     active_column_idx |-> ws.active_column_idx]

\* The workspaces of a list whose original_output is not `id`, in order, each
\* by its layout.
Foreign(workspaces, id) ==
    MapSeq(Retain(workspaces, LAMBDA ws : ws.original_output # id), Layout)

\* Layout t is layout s as far as the workspaces that did not originate on
\* `output` go.
NonInterference(s, t, output) ==
    LET id == OutputId(output)
    IN  /\ t.kind = "Normal"
        /\ IF s.kind = "Normal"
           THEN /\ Len(t.monitors) >= Len(s.monitors)
                /\ \A m \in Idx(t.monitors) :
                      IF m \in Idx(s.monitors)
                      THEN /\ At(t.monitors, m).output = At(s.monitors, m).output
                           /\ Foreign(At(t.monitors, m).workspaces, id)
                                = Foreign(At(s.monitors, m).workspaces, id)
                      ELSE Foreign(At(t.monitors, m).workspaces, id) = <<>>
           ELSE /\ Len(t.monitors) = 1
                /\ Foreign(At(t.monitors, 0).workspaces, id) = Foreign(s.workspaces, id)

\* C2: add_output(O) changes neither the column order, nor the windows of a
\* column, nor the active column or window of any workspace whose
\* original_output is not O; from Normal every such workspace stays on its
\* monitor, in the same relative order.
C2_NonInterference ==
    [][\A output \in Outputs :
          (output \notin connected /\ output \in connected' /\ ~panicked')
              => NonInterference(ms, ms', output)]_vars

\* An output has come back to a layout of two monitors where the primary
\* monitor keeps a window-bearing workspace of the other origin and the
\* monitor that came back took one of its own.
C2_Witness ==
    /\ trip.phase = 2 /\ ~panicked
    /\ ms.kind = "Normal" /\ Len(ms.monitors) = 2
    /\ Foreign(Retain(At(ms.monitors, 0).workspaces, has_windows),
               OutputId(trip.output)) # <<>>
    /\ Content(At(ms.monitors, 1).workspaces) # <<>>
    /\ At(ms.monitors, 1).output = trip.output


\* The last workspace of every monitor of s holds no window.
TrailingEmpty(s) ==
    \A m \in Idx(s.monitors) :
        LET workspaces == At(s.monitors, m).workspaces
        IN  /\ workspaces # <<>>
            /\ ~has_windows(At(workspaces, Len(workspaces) - 1))

\* C3: from freshly connected outputs, after any sequence of add_window and
\* remove_window calls, the last workspace of every monitor holds no window.
C3_SentinelPreserved ==
    ms.kind = "Normal" => TrailingEmpty(ms)

\* A monitor whose first workspace lost its only window while active, whose
\* second workspace holds a window, and whose third workspace is the last.
C3_Witness ==
    /\ ~panicked /\ ms.kind = "Normal"
    /\ \E m \in Idx(ms.monitors) :
          LET workspaces == At(ms.monitors, m).workspaces
          IN  /\ Len(workspaces) = 3
              /\ ~has_windows(At(workspaces, 0))
              /\ has_windows(At(workspaces, 1))

\* C4: in every reachable Normal state, whatever operations led to it
\* (add_output, remove_output, add_window, remove_window, switch_workspace_up
\* and _down, move_to_workspace_up and _down among them), the last workspace
\* of every monitor holds no window.
C4_TrailingEmptyKept ==
    (~panicked /\ ms.kind = "Normal") => TrailingEmpty(ms)

\* Workspaces i and i + 1 of the monitor both hold no window and neither is
\* the monitor's active workspace.
ConsecutiveIdle(monitor, i) ==
    /\ i + 1 \in Idx(monitor.workspaces)
    /\ ~has_windows(At(monitor.workspaces, i))
    /\ ~has_windows(At(monitor.workspaces, i + 1))
    /\ monitor.active_workspace_idx \notin {i, i + 1}

\* C5: after any sequence of add_window and remove_window calls no monitor
\* has two consecutive workspaces that are both without windows and both not
\* its active workspace.
C5_NoConsecutiveIdle ==
    (~panicked /\ ms.kind = "Normal") =>
        \A m \in Idx(ms.monitors) :
            \A i \in Idx(At(ms.monitors, m).workspaces) :
                ~ConsecutiveIdle(At(ms.monitors, m), i)


\* C6: in every reachable Normal state every monitor holds at least one
\* workspace, and every monitor but the primary one holds only workspaces
\* whose original_output is the monitor's own output.
C6_OwnOriginOffPrimary ==
    ms.kind = "Normal" =>
        \A m \in Idx(ms.monitors) :
            LET monitor == At(ms.monitors, m)
            IN  /\ monitor.workspaces # <<>>
                /\ m # ms.primary_idx =>
                      \A i \in Idx(monitor.workspaces) :
                          At(monitor.workspaces, i).original_output
                              = OutputId(monitor.output)

\* The output that came back is the second monitor and took back two
\* window-bearing workspaces from the primary monitor.
C6_Witness ==
    /\ ~panicked /\ trip.phase = 2
    /\ ms.kind = "Normal" /\ Len(ms.monitors) = 2 /\ ms.primary_idx = 0
    /\ At(ms.monitors, 1).output = trip.output
    /\ Len(Content(At(ms.monitors, 1).workspaces)) = 2

\* C7: in every reachable NoOutputs state every workspace of the orphan list
\* holds a window: remove_output of the last output drops the workspaces
\* without windows, and remove_window in NoOutputs drops a workspace when it
\* loses its last window.
C7_OrphansHaveWindows ==
    ms.kind = "NoOutputs" =>
        \A i \in Idx(ms.workspaces) : has_windows(At(ms.workspaces, i))

\* With no output connected, a window has been unmapped and one orphaned
\* workspace with one window is left.
C7_Witness ==
    /\ ~panicked /\ ms.kind = "NoOutputs" /\ trip.phase = 0
    /\ Len(ms.workspaces) = 1
    /\ Cardinality(Mapped(ms)) = 1

\* C8: the set is Normal exactly when an output is connected; add_output from
\* NoOutputs yields Normal; remove_output yields NoOutputs iff the removed
\* monitor was the last one; Normal has a non-empty monitor list; no other
\* operation changes the variant; remove_output in NoOutputs is fatal.
C8_StateMachine ==
    /\ []((ms.kind = "Normal") <=> (connected # {}))
    /\ [](ms.kind \in {"Normal", "NoOutputs"})
    /\ [](ms.kind = "Normal" => ms.monitors # <<>>)
    /\ [](ms.kind = "NoOutputs" =>
            \A output \in Outputs : RemoveOutput(ms, output).kind = "Panic")
    /\ [][ms'.kind # ms.kind => connected' # connected]_vars
    /\ [][\A output \in Outputs :
            (ms.kind = "NoOutputs" /\ output \notin connected /\ output \in connected')
                => ms'.kind = "Normal"]_vars
    /\ [][\A output \in Outputs :
            (output \in connected /\ output \notin connected')
                => ((ms'.kind = "NoOutputs") <=> (Len(ms.monitors) = 1))]_vars

\* The last output has gone, leaving an orphaned workspace, and the
\* remove_output that came next was fatal.
C8_Witness ==
    /\ panicked /\ ms.kind = "NoOutputs" /\ ms.workspaces # <<>>

\* C9: verify_invariants (with Workspace::verify_invariants and
\* Column::verify_invariants) fails none of its assertions in any state
\* reachable from MonitorSet::new() through the public operations, NoOutputs
\* states with orphaned window-bearing workspaces included.
C9_VerifyInvariantsPasses ==
    ~panicked => VerifyInvariants(ms)


\* C10: push_front N times and then pop_front N times (N >= 1) returns the
\* external index of every workspace that was in the sequence before, and was
\* neither pushed nor popped, to the value it had before.
C10_IndexStability ==
    (streak.phase = "done" /\ ~panicked) =>
        \A i \in Idx(seq.workspaces) :
            \A j \in 1..Len(streak.before) :
                At(seq.workspaces, i) = streak.before[j].id
                    => to_external_index(seq, i) = streak.before[j].idx


\* Every workspace of sequence w is in sequence t, at the external index it
\* has in w.
SameExternalIndices(w, t) ==
    \A i \in Idx(w.workspaces) :
        \E j \in Idx(t.workspaces) :
            /\ At(t.workspaces, j) = At(w.workspaces, i)
            /\ to_external_index(t, j) = to_external_index(w, i)

\* If active_workspace_idx addresses a workspace of w (in a build with or
\* without debug assertions), it addresses the same workspace in t.
SameActiveWorkspace(w, t) ==
    \A debug \in BOOLEAN :
        Indexable(w, w.active_workspace_idx, debug) =>
            /\ Indexable(t, t.active_workspace_idx, debug)
            /\ At(t.workspaces, to_internal_index(t, t.active_workspace_idx))
                 = At(w.workspaces, to_internal_index(w, w.active_workspace_idx))

\* The sequence with another active_workspace_idx, one of the external
\* indices of its workspaces or one beyond at either end.
Activated(w) ==
    {[w EXCEPT !.active_workspace_idx = idx] : idx \in ActivateIdxs(w)}

\* C11: after push_front (and add_workspace_top, which calls it) every
\* workspace that was in the sequence has the external index it had, and
\* active_workspace_idx addresses the workspace it addressed.
C11_PushFrontStable ==
    \A w \in Activated(seq) :
        /\ \A workspace \in WorkspaceIds \ SeqIds(seq) :
              /\ SameExternalIndices(w, push_front(w, workspace))
              /\ SameActiveWorkspace(w, push_front(w, workspace))
        /\ \A ws \in NewWorkspaceIds \ SeqIds(seq) :
              /\ SameExternalIndices(w, add_workspace_top(w, ws))
              /\ SameActiveWorkspace(w, add_workspace_top(w, ws))

\* Two workspaces have been pushed to the front of a sequence whose active
\* workspace can be addressed.
C11_Witness ==
    /\ ~panicked /\ called = "push_front"
    /\ streak.phase = "pushing" /\ streak.pushed = 2
    /\ Len(seq.workspaces) = 3
    /\ Indexable(seq, seq.active_workspace_idx, TRUE)


\* C12: push_back and pop_back leave workspace_idx_offset as it is, so every
\* workspace that stays in the sequence keeps its external index.
C12_BackKeepsOffset ==
    /\ \A workspace \in WorkspaceIds \ SeqIds(seq) :
          /\ push_back(seq, workspace).workspace_idx_offset = seq.workspace_idx_offset
          /\ SameExternalIndices(seq, push_back(seq, workspace))
    /\ Len(seq.workspaces) > 1 =>
          /\ pop_back(seq).workspace_idx_offset = seq.workspace_idx_offset
          /\ SameExternalIndices(pop_back(seq), seq)


\* The non-zero min widths the windows of a column declare.
DeclaredMinWidths(col) ==
    {min_size(At(col.windows, i)).w : i \in Idx(col.windows)} \ {0}

\* A request of `size` is wide enough for the column and at least 1 high.
WideEnough(col, size) ==
    /\ \A w \in DeclaredMinWidths(col) : size.w >= w
    /\ size.h >= 1

\* C13: for every view size and every column, the width update_window_sizes
\* requests of each window of the column is at least the largest non-zero min
\* width any window of the column declares, and the height is at least 1: of
\* the requests the windows of the column hold, and of the request any view
\* size would bring them next.
C13_WidthMonotonicity ==
    /\ Len(requested) = Len(column.windows)
    /\ \A i \in 1..Len(requested) : WideEnough(column, requested[i])
    /\ \A view_size \in ViewSizes :
          LET size == update_window_sizes(column, view_size, debug_assertions)
          IN  size # NoRequest => WideEnough(column, size)

\* A column of two windows whose larger min width (2000) is beyond the width
\* resolved from the view, and whose share of the height is below 1.
C13_Witness ==
    /\ ~panicked
    /\ called = "add_window"
    /\ Len(column.windows) = 2
    /\ DeclaredMinWidths(column) = {300, 2000}
    /\ \A i \in 1..2 : requested[i] = Size(2000, 1)


\* The active monitor of a Normal layout, and whether its active workspace and
\* that workspace's active column exist.
ActiveMonitor(s) == At(s.monitors, s.active_monitor_idx)
HasActiveWorkspace(s) ==
    /\ s.kind = "Normal"
    /\ ActiveMonitor(s).active_workspace_idx \in Idx(ActiveMonitor(s).workspaces)
ActiveWorkspace(s) ==
    At(ActiveMonitor(s).workspaces, ActiveMonitor(s).active_workspace_idx)
HasActiveColumn(s) ==
    /\ HasActiveWorkspace(s)
    /\ ActiveWorkspace(s).active_column_idx \in Idx(ActiveWorkspace(s).columns)
ActiveColumn(s) ==
    At(ActiveWorkspace(s).columns, ActiveWorkspace(s).active_column_idx)

C15_AbsentRemovalAborts ==
    \A window \in Windows :
        window \notin Mapped(ms) => RemoveWindow(ms, window).kind = "Panic"


\* The workspaces of a layout.
WorkspacesOf(s) ==
    IF s.kind = "Normal"
    THEN UNION {{At(At(s.monitors, m).workspaces, i) :
                    i \in Idx(At(s.monitors, m).workspaces)} : m \in Idx(s.monitors)}
    ELSE {At(s.workspaces, i) : i \in Idx(s.workspaces)}

\* The original_output of the workspace (of every workspace) that holds a
\* window.
OriginsOf(s, window) ==
    {ws.original_output : ws \in {x \in WorkspacesOf(s) : has_window(x, window)}}

\* Layout t is layout s or a panic or, window for window of s still in t, has
\* every window on a workspace of the original_output it was on in s; the
\* windows of `moved` are left out.
KeepsOrigins(s, t, moved) ==
    t.kind # "Panic" =>
        \A window \in (Mapped(s) \cap Mapped(t)) \ moved :
            OriginsOf(t, window) = OriginsOf(s, window)

\* The original_output of every workspace of monitor m at a position it had
\* in s is in t what it was in s.
KeepsOriginsInPlace(s, t, m) ==
    \A i \in Idx(At(s.monitors, m).workspaces) :
        At(At(t.monitors, m).workspaces, i).original_output
            = At(At(s.monitors, m).workspaces, i).original_output

\* move_to_workspace_up/down took layout s to t: the window it moved is on a
\* workspace of the original_output that workspace new_idx had in s.
MovedOntoOrigin(s, t, new_idx) ==
    (HasActiveColumn(s) /\ t.kind # "Panic" /\ t # s) =>
        LET window == ActiveWindowOf(ActiveWorkspace(s))
        IN  /\ OriginsOf(t, window)
                  = {At(ActiveMonitor(s).workspaces, new_idx).original_output}
            /\ KeepsOrigins(s, t, {window})

WorkspaceAt(s, m, i) == At(At(s.monitors, m).workspaces, i)

\* A workspace bound to an output has that output as its original_output.
OriginIsCurrent(ws) ==
    ws.output # NoOutput => ws.original_output = OutputId(ws.output)

\* C17: forget-origin rule. When a window is created on or moved onto a
\* workspace bound to an output (add_window, move_to_workspace_up/down), the
\* original_output of that workspace is afterwards the identity of its
\* current output.
C17_ForgetOrigin ==
    ms.kind = "Normal" =>
        /\ \A m \in Idx(ms.monitors) :
           \A i \in Idx(At(ms.monitors, m).workspaces),
              window \in Windows \ Mapped(ms), activate \in BOOLEAN :
              LET t == AddWindow(ms, m, i, window, activate)
              IN  t.kind = "Normal" => OriginIsCurrent(WorkspaceAt(t, m, i))
        /\ HasActiveColumn(ms) =>
              LET window == ActiveWindowOf(ActiveWorkspace(ms))
              IN  \A t \in {MoveToWorkspaceUp(ms), MoveToWorkspaceDown(ms)} \ {ms} :
                     t.kind = "Normal" =>
                        \A ws \in WorkspacesOf(t) :
                           has_window(ws, window) => OriginIsCurrent(ws)


\* The windows of the columns of a workspace, column by column.
ColumnsOf(ws) == [c \in 1..Len(ws.columns) |-> ws.columns[c].windows]

\* Workspace ws has a column to the right of its active column.
HasColumnToTheRight(ws) ==
    /\ ws.active_column_idx \in Idx(ws.columns)
    /\ ws.active_column_idx + 1 \in Idx(ws.columns)

\* What consume_into_column is to make of the columns `cols` with active
\* column a (1-based): the first window of column a + 1 goes to the end of
\* column a, and column a + 1 goes away if that was its only window.
Consumed(cols, a) ==
    LET window == Head(cols[a + 1])
        rest == Tail(cols[a + 1])
    IN  SubSeq(cols, 1, a - 1) \o <<Append(cols[a], window)>>
        \o (IF rest = <<>> THEN <<>> ELSE <<rest>>)
        \o SubSeq(cols, a + 2, Len(cols))

\* C18: consume_into_column, called with a column to the right of the active
\* one, moves exactly the first window of that column to the end of the
\* active column; the active column index stays; every other window keeps its
\* column and its place; there is one column fewer exactly when the column to
\* the right held a single window.
C18_ConsumeIntoColumn ==
    \A ws \in WorkspacesOf(ms) :
        HasColumnToTheRight(ws) =>
            LET t == WorkspaceConsumeIntoColumn(ws)
                right == At(ws.columns, ws.active_column_idx + 1)
            IN  /\ ColumnsOf(t) = Consumed(ColumnsOf(ws), ws.active_column_idx + 1)
                /\ t.active_column_idx = ws.active_column_idx
                /\ (Len(t.columns) = Len(ws.columns) - 1) <=> (Len(right.windows) = 1)
                /\ Len(t.columns) \in {Len(ws.columns), Len(ws.columns) - 1}

\* The active workspace has two columns, the first one active, the second of
\* two windows: the call takes the upper of the two and leaves two columns.
C18_Witness ==
    /\ ~panicked
    /\ HasActiveColumn(ms)
    /\ HasColumnToTheRight(ActiveWorkspace(ms))
    /\ ColumnsOf(ActiveWorkspace(ms)) = <<<<"w1">>, <<"w2", "w3">>>>
    /\ ColumnsOf(ActiveWorkspace(ConsumeIntoColumn(ms))) = <<<<"w1", "w2">>, <<"w3">>>>


\* C19: a workspace sequence never becomes empty. pop_front and pop_back on a
\* sequence of exactly one workspace abort and remove nothing, and no call
\* (push_front, push_back, pop_front, pop_back, add_workspace_top,
\* add_workspace_bottom, clean_up_workspaces) on a non-empty sequence leaves
\* it with len() < 1.
C19_NeverEmpty ==
    [][/\ Len(seq.workspaces) >= 1 => Len(seq'.workspaces) >= 1
       /\ (Len(seq.workspaces) = 1 /\ called' \in {"pop_front", "pop_back"}) =>
             panicked' /\ seq' = seq
       /\ Len(seq.workspaces) = 1 =>
             pop_front(seq) = WorkspacesPanic /\ pop_back(seq) = WorkspacesPanic]_vars

\* pop_back was called on the one workspace left of a longer sequence, and
\* aborted.
C19_Witness ==
    /\ panicked
    /\ called = "pop_back"
    /\ Len(seq.workspaces) = 1
    /\ seq.workspace_idx_offset > 0


\* What clean_up_workspaces may make of sequence w in the build `debug`, over
\* the values of its unbound workspace_idx and the workspaces it may add.
CleanedUp(w, debug) ==
    {clean_up_workspaces(w, workspace_idx, top, bottom, debug) :
        workspace_idx \in -1..MaxSeqLen,
        top \in NewWorkspaceIds \ SeqIds(w),
        bottom \in NewWorkspaceIds \ SeqIds(w)} \ {WorkspacesPanic}

\* The last workspace of a non-empty sequence.
LastWorkspace(w) == At(w.workspaces, Len(w.workspaces) - 1)

\* clean_up_workspaces took w to t: the active workspace of w is in t and is
\* the workspace active_workspace_idx addresses in t.
KeepsActive(w, t, debug) ==
    Indexable(w, w.active_workspace_idx, debug) =>
        /\ Indexable(t, t.active_workspace_idx, debug)
        /\ At(t.workspaces, to_internal_index(t, t.active_workspace_idx))
              = At(w.workspaces, to_internal_index(w, w.active_workspace_idx))

\* C20: clean_up_workspaces, called with no switch in flight, never
\* removes the active workspace and never removes the last workspace, with
\* empty_workspace_above_first set or not, and active_workspace_idx
\* addresses afterwards the workspace it addressed before.
C20_CleanUpKeepsActiveAndLast ==
    (seq.workspaces # <<>> /\ seq.workspace_switch = NoSwitch) =>
        \A t \in CleanedUp(seq, debug_assertions) :
            /\ KeepsActive(seq, t, debug_assertions)
            /\ LastWorkspace(seq) \in SeqIds(t)

\* What a workspace carries from output to output: its origin, its columns
\* and its active column.
Carried(ws) ==
    [original_output |-> ws.original_output,
     columns |-> ws.columns,
     active_column_idx |-> ws.active_column_idx]

\* The workspaces of a list, each by what it carries.
CarriedOf(workspaces) ==
    [i \in 1..Len(workspaces) |-> Carried(workspaces[i])]

\* Every workspace of the list is bound to `output`, at the size of its mode.
AllBoundTo(workspaces, output) ==
    \A i \in 1..Len(workspaces) :
        /\ workspaces[i].output = output
        /\ workspaces[i].view_size = output_size(output)

\* What a new workspace of `output` carries.
CarriedNew(output) ==
    [original_output |-> OutputId(output), columns |-> <<>>, active_column_idx |-> 0]

\* C21: add_output in NoOutputs gives a Normal set of exactly one monitor,
\* primary (primary_idx = 0) and active (active_monitor_idx = 0), whose
\* workspaces are the former orphans in their order followed by one new
\* empty workspace, every one of them bound to the new output.
C21_AddOutputFromNoOutputs ==
    ms.kind = "NoOutputs" =>
        \A output \in Outputs :
            LET t == AddOutput(ms, output)
            IN  /\ t.kind = "Normal"
                /\ Len(t.monitors) = 1
                /\ t.primary_idx = 0
                /\ t.active_monitor_idx = 0
                /\ At(t.monitors, 0).output = output
                /\ CarriedOf(At(t.monitors, 0).workspaces)
                      = Append(CarriedOf(ms.workspaces), CarriedNew(output))
                /\ AllBoundTo(At(t.monitors, 0).workspaces, output)

\* The only output went away with two window-bearing workspaces and came
\* back: its monitor holds the two and the new empty workspace.
C21_Witness ==
    /\ ~panicked
    /\ trip.phase = 2
    /\ Len(trip.before.monitors) = 1
    /\ ms.kind = "Normal"
    /\ Len(ms.monitors) = 1
    /\ Len(At(ms.monitors, 0).workspaces) = 3
    /\ has_windows(At(At(ms.monitors, 0).workspaces, 0))
    /\ has_windows(At(At(ms.monitors, 0).workspaces, 1))


\* The workspaces of the primary monitor of s whose original_output is the
\* identity of `output`, in order.
CollectedFor(s, output) ==
    SelectSeq(At(s.monitors, s.primary_idx).workspaces,
              LAMBDA ws : ws.original_output = OutputId(output))

\* C22: add_output(O) in Normal leaves the primary monitor and the active
\* monitor the monitors they were, and appends a monitor of O whose
\* workspaces are the workspaces of the primary monitor with original_output
\* O, in their order and bound to O, followed by one new empty workspace when
\* every collected workspace has windows (so too when none was collected).
C22_AddOutputInNormal ==
    ms.kind = "Normal" =>
        \A output \in Outputs3 \ connected :
            LET t == AddOutput(ms, output)
                new == At(t.monitors, Len(ms.monitors))
                collected == CollectedFor(ms, output)
            IN  /\ t.kind = "Normal"
                /\ Len(t.monitors) = Len(ms.monitors) + 1
                /\ \A m \in Idx(ms.monitors) :
                      At(t.monitors, m).output = At(ms.monitors, m).output
                /\ t.primary_idx = ms.primary_idx
                /\ t.active_monitor_idx = ms.active_monitor_idx
                /\ new.output = output
                /\ CarriedOf(new.workspaces)
                      = CarriedOf(collected)
                        \o (IF \A i \in 1..Len(collected) : has_windows(collected[i])
                            THEN <<CarriedNew(output)>> ELSE <<>>)
                /\ AllBoundTo(new.workspaces, output)

\* An output came back beside two others, the primary monitor not the active
\* one, and took a window-bearing workspace from the primary monitor.
C22_Witness ==
    /\ ~panicked
    /\ trip.phase = 2
    /\ Len(trip.before.monitors) = 3
    /\ ms.kind = "Normal"
    /\ Len(ms.monitors) = 3
    /\ ms.primary_idx # ms.active_monitor_idx
    /\ At(ms.monitors, 2).output = trip.output
    /\ Len(At(ms.monitors, 2).workspaces) = 2
    /\ has_windows(At(At(ms.monitors, 2).workspaces, 0))


\* C23: remove_output of a monitor that is not the last one keeps primary_idx
\* and active_monitor_idx within the monitor list, each on the monitor it was
\* on unless that monitor is the one removed, and inserts the removed
\* monitor's workspaces that have windows, in order and rebound to the
\* primary output, into the (possibly new) primary monitor's list right
\* before its last workspace; its workspaces without windows are dropped.
C23_RemoveOutputOfOneOfMany ==
    (ms.kind = "Normal" /\ Len(ms.monitors) >= 2) =>
        \A output \in connected :
            LET idx == MonitorPosition(ms, output)
                t == RemoveOutput(ms, output)
                removed == At(ms.monitors, idx)
                survivors == SelectSeq(removed.workspaces, has_windows)
                primary == At(t.monitors, t.primary_idx)
                was == At(ms.monitors, MonitorPosition(ms, primary.output))
                n == Len(was.workspaces)
            IN  /\ t.kind = "Normal"
                /\ Len(t.monitors) = Len(ms.monitors) - 1
                /\ t.primary_idx \in Idx(t.monitors)
                /\ t.active_monitor_idx \in Idx(t.monitors)
                /\ ms.primary_idx # idx =>
                      primary.output = At(ms.monitors, ms.primary_idx).output
                /\ ms.active_monitor_idx # idx =>
                      At(t.monitors, t.active_monitor_idx).output
                          = At(ms.monitors, ms.active_monitor_idx).output
                /\ n >= 1
                /\ CarriedOf(primary.workspaces)
                      = CarriedOf(SubSeq(was.workspaces, 1, n - 1))
                        \o CarriedOf(survivors)
                        \o CarriedOf(SubSeq(was.workspaces, n, n))
                /\ AllBoundTo(primary.workspaces, primary.output)

\* The primary monitor of three went away with a window-bearing workspace,
\* which is now on the new primary monitor before its last workspace.
C23_Witness ==
    /\ ~panicked
    /\ trip.phase = 1
    /\ Len(trip.before.monitors) = 3
    /\ MonitorPosition(trip.before, trip.output) = trip.before.primary_idx
    /\ ms.kind = "Normal"
    /\ Len(At(ms.monitors, ms.primary_idx).workspaces) = 2
    /\ has_windows(At(At(ms.monitors, ms.primary_idx).workspaces, 0))
    /\ At(At(ms.monitors, ms.primary_idx).workspaces, 0).original_output
          = OutputId(trip.output)


\* C24: MonitorSet::add_window(m, w, window, activate) puts the window in
\* workspace w of monitor m; with activate the active monitor becomes m and
\* the active workspace of m becomes w, without it both stay; if w was the
\* last workspace of m a new empty workspace follows it. So from an empty
\* compositor, add_output(A) and add_window(0, 0, W1, true) give one monitor
\* (A, primary, active) with one workspace of one column of W1, followed by
\* one empty workspace.
C24_AddWindow ==
    /\ ms.kind = "Normal" =>
          \A m \in Idx(ms.monitors) :
          \A i \in Idx(At(ms.monitors, m).workspaces),
             window \in Windows \ Mapped(ms), activate \in BOOLEAN :
             LET t == AddWindow(ms, m, i, window, activate)
                 was == At(ms.monitors, m)
                 monitor == At(t.monitors, m)
             IN  /\ t.kind = "Normal"
                 /\ has_window(At(monitor.workspaces, i), window)
                 /\ Mapped(t) = Mapped(ms) \cup {window}
                 /\ t.active_monitor_idx = IF activate THEN m ELSE ms.active_monitor_idx
                 /\ monitor.active_workspace_idx
                       = IF activate THEN i ELSE was.active_workspace_idx
                 /\ IF i = Len(was.workspaces) - 1
                    THEN /\ Len(monitor.workspaces) = Len(was.workspaces) + 1
                         /\ At(monitor.workspaces, i + 1) = WorkspaceNew(was.output)
                    ELSE Len(monitor.workspaces) = Len(was.workspaces)
    /\ LET t == AddWindow(AddOutput(MonitorSetNew, [name |-> "A"]), 0, 0, "w1", TRUE)
       IN  /\ t.kind = "Normal"
           /\ Len(t.monitors) = 1 /\ t.primary_idx = 0 /\ t.active_monitor_idx = 0
           /\ At(t.monitors, 0).output = [name |-> "A"]
           /\ Len(At(t.monitors, 0).workspaces) = 2
           /\ ColumnsOf(WorkspaceAt(t, 0, 0)) = <<<<"w1">>>>
           /\ ~has_windows(WorkspaceAt(t, 0, 1))

\* Output A is connected and W1 was added to its first workspace, activating.
C24_Witness ==
    /\ ~panicked
    /\ ms = AddWindow(AddOutput(MonitorSetNew, [name |-> "A"]), 0, 0, "w1", TRUE)


\* C25: Workspace::add_window inserts the window as a new column of one
\* window at position active_column_idx + 1 (position 0 when the workspace
\* has no columns) and leaves the other columns in their order; with
\* activate the new column becomes the active column, without it the column
\* that was active stays the active column.
C25_WorkspaceAddWindow ==
    \A ws \in WorkspacesOf(ms), window \in TilingWindows \ Mapped(ms),
       activate \in BOOLEAN :
        LET t == WorkspaceAddWindow(ws, window, activate)
            n == Len(ws.columns)
            idx == IF n = 0 THEN 0 ELSE ws.active_column_idx + 1
        IN  /\ Len(t.columns) = n + 1
            /\ At(t.columns, idx).windows = <<window>>
            /\ RemoveAt(t.columns, idx) = ws.columns
            /\ activate => t.active_column_idx = idx
            /\ (~activate /\ n > 0) =>
                  At(t.columns, t.active_column_idx) = At(ws.columns, ws.active_column_idx)

\* Three columns, the first one active: the two others were added behind it
\* without activation, the later one nearer to it.
C25_Witness ==
    /\ ~panicked
    /\ HasActiveColumn(ms)
    /\ ColumnsOf(ActiveWorkspace(ms)) = <<<<"w1">>, <<"w3">>, <<"w2">>>>
    /\ ActiveWorkspace(ms).active_column_idx = 0


\* Every column of the workspace holds a window and has its active window
\* among its windows; the active column of a workspace with columns is among
\* its columns.
WellFormed(ws) ==
    /\ \A c \in Idx(ws.columns) :
          /\ At(ws.columns, c).windows # <<>>
          /\ At(ws.columns, c).active_window_idx \in Idx(At(ws.columns, c).windows)
    /\ ws.columns # <<>> => ws.active_column_idx \in Idx(ws.columns)

\* C26: in every reachable state, after any sequence of add_window,
\* remove_window, focus_*, move_*, consume_into_column, expel_from_column and
\* move_to_workspace_up/down, every column of every workspace contains at
\* least one window and has active_window_idx < windows.len(), and every
\* workspace that has columns has active_column_idx < columns.len().
C26_StructuralInvariants ==
    \A ws \in WorkspacesOf(ms) : WellFormed(ws)

\* Three windows are mapped, two of them in the active column, the lower one
\* active, and a call has left another column in front of it.
C26_Witness ==
    /\ ~panicked
    /\ HasActiveColumn(ms)
    /\ Cardinality(Mapped(ms)) = 3
    /\ ActiveWorkspace(ms).active_column_idx = 1
    /\ Len(ActiveColumn(ms).windows) = 2
    /\ ActiveColumn(ms).active_window_idx = 1


\* What expel_from_column is to make of the columns `cols` with active column
\* a (1-based) and active window k (1-based) of it: the window leaves the
\* column and is a column of its own right after it.
Expelled(cols, a, k) ==
    SubSeq(cols, 1, a - 1)
    \o <<SubSeq(cols[a], 1, k - 1) \o SubSeq(cols[a], k + 1, Len(cols[a]))>>
    \o <<<<cols[a][k]>>>>
    \o SubSeq(cols, a + 1, Len(cols))

\* C27: expel_from_column on an active column of two or more windows takes
\* the active window of that column out and puts it back as a new column of
\* one window right after the source column; the new column becomes the
\* active column; the workspace has as many windows as before, and all other
\* windows and columns keep their order.
C27_ExpelFromColumn ==
    \A ws \in WorkspacesOf(ms) :
        (/\ ws.active_column_idx \in Idx(ws.columns)
         /\ Len(At(ws.columns, ws.active_column_idx).windows) >= 2) =>
            LET t == WorkspaceExpelFromColumn(ws)
                source == At(ws.columns, ws.active_column_idx)
            IN  /\ ColumnsOf(t) = Expelled(ColumnsOf(ws), ws.active_column_idx + 1,
                                           source.active_window_idx + 1)
                /\ t.active_column_idx = ws.active_column_idx + 1
                /\ Len(WorkspaceWindows(t)) = Len(WorkspaceWindows(ws))

\* The active column holds W1 over W2, W1 active, and W3 is in the column
\* after it: the call puts W1 between them.
C27_Witness ==
    /\ ~panicked
    /\ HasActiveColumn(ms)
    /\ ColumnsOf(ActiveWorkspace(ms)) = <<<<"w1", "w2">>, <<"w3">>>>
    /\ ActiveWorkspace(ms).active_column_idx = 0
    /\ ActiveColumn(ms).active_window_idx = 0
    /\ ColumnsOf(ActiveWorkspace(ExpelFromColumn(ms))) = <<<<"w2">>, <<"w1">>, <<"w3">>>>


\* `new` is `old` with the elements at positions i and k trading places and
\* every other element where it was.
Swapped(old, new, i, k) ==
    /\ Len(new) = Len(old)
    /\ At(new, k) = At(old, i)
    /\ At(new, i) = At(old, k)
    /\ \A j \in Idx(old) \ {i, k} : At(new, j) = At(old, j)

\* Every column of every workspace of the layout.
ColumnsIn(s) ==
    UNION {{At(ws.columns, c) : c \in Idx(ws.columns)} : ws \in WorkspacesOf(s)}

\* Column::move_up and move_down away from the boundary.
ColumnMoveSwaps(col) ==
    LET i == col.active_window_idx
        up == ColumnMoveUp(col)
        down == ColumnMoveDown(col)
    IN  /\ (i > 0 /\ i \in Idx(col.windows)) =>
               /\ Swapped(col.windows, up.windows, i, i - 1)
               /\ up.active_window_idx = i - 1
               /\ up = [col EXCEPT !.windows = up.windows, !.active_window_idx = i - 1]
        /\ (i \in Idx(col.windows) /\ i + 1 \in Idx(col.windows)) =>
               /\ Swapped(col.windows, down.windows, i, i + 1)
               /\ down.active_window_idx = i + 1
               /\ down = [col EXCEPT !.windows = down.windows, !.active_window_idx = i + 1]

\* Workspace::move_left and move_right away from the boundary.
WorkspaceMoveSwaps(ws) ==
    LET a == ws.active_column_idx
        left == WorkspaceMoveLeft(ws)
        right == WorkspaceMoveRight(ws)
    IN  /\ (a > 0 /\ a \in Idx(ws.columns)) =>
               /\ Swapped(ws.columns, left.columns, a, a - 1)
               /\ left.active_column_idx = a - 1
               /\ left = [ws EXCEPT !.columns = left.columns, !.active_column_idx = a - 1]
        /\ (a \in Idx(ws.columns) /\ a + 1 \in Idx(ws.columns)) =>
               /\ Swapped(ws.columns, right.columns, a, a + 1)
               /\ right.active_column_idx = a + 1
               /\ right = [ws EXCEPT !.columns = right.columns, !.active_column_idx = a + 1]

\* C28: away from the boundary, move_up and move_down swap the active window
\* of a column with its neighbour and move_left and move_right swap the
\* active column of a workspace with its neighbour: the active index follows
\* the moved element, every other element stays where it was (so the windows
\* are the same windows), nothing else of the column or workspace changes,
\* and no window is asked for a size: each keeps the size last requested.
C28_MoveSwapsWithNeighbour ==
    [][/\ ColumnMoveSwaps(column)
       /\ \A col \in ColumnsIn(ms) : ColumnMoveSwaps(col)
       /\ \A ws \in WorkspacesOf(ms) : WorkspaceMoveSwaps(ws)
       /\ called' \in {"move_up", "move_down"} =>
              /\ column' = (IF called' = "move_up" THEN ColumnMoveUp(column)
                            ELSE ColumnMoveDown(column))
              /\ Swapped(requested, requested', column.active_window_idx,
                         column'.active_window_idx)]_vars

C28_Witness ==
    /\ ~panicked
    /\ HasActiveColumn(ms)
    /\ ColumnsOf(ActiveWorkspace(ms)) = <<<<"w3">>, <<"w1", "w2">>>>
    /\ ActiveWorkspace(ms).active_column_idx = 1
    /\ ActiveColumn(ms).active_window_idx = 1
    /\ ColumnsOf(ActiveWorkspace(MoveLeft(ms))) = <<<<"w1", "w2">>, <<"w3">>>>
    /\ ActiveWorkspace(MoveLeft(ms)).active_column_idx = 0
    /\ ColumnsOf(ActiveWorkspace(MoveUp(ms))) = <<<<"w3">>, <<"w2", "w1">>>>
    /\ ActiveColumn(MoveUp(ms)).active_window_idx = 0


\* The position in the sequence that the external index idx stands for, and
\* whether there is a workspace at it.
InternalPosition(w, idx) == idx + w.workspace_idx_offset
Addresses(w, idx) == InternalPosition(w, idx) \in Idx(w.workspaces)

\* What the switch in flight, if any, may report as its current position.
CurrentPositions(w) ==
    IF w.workspace_switch.kind = "Animation" THEN CurrentIdxs(w.workspace_switch)
    ELSE {0}

\* activate_workspace(idx) took w to t, the switch in flight being at
\* current_idx.
Switched(w, t, idx, current_idx) ==
    IF idx = w.active_workspace_idx THEN t = w
    ELSE t = [w EXCEPT
                !.previous_workspace_id =
                    At(w.workspaces, InternalPosition(w, w.active_workspace_idx)),
                !.active_workspace_idx = idx,
                !.workspace_switch =
                    Animation(IF w.workspace_switch.kind = "Animation"
                              THEN current_idx
                              ELSE InternalPosition(w, w.active_workspace_idx),
                              InternalPosition(w, idx))]

\* C29: activate_workspace(idx) changes nothing when idx is the active index
\* (previous id and switch in flight included); otherwise the previous id
\* becomes the id of the workspace that was active, the active index becomes
\* idx, and the switch is replaced by one from the current position of the
\* old switch (from the position of the formerly active workspace when no
\* switch was in flight) to the position of idx.
C29_ActivateWorkspace ==
    Addresses(seq, seq.active_workspace_idx) =>
        \A idx \in SwitchIdxs(seq), current_idx \in CurrentPositions(seq) :
            Switched(seq, activate_workspace(seq, idx, current_idx, debug_assertions),
                     idx, current_idx)


\* C30: previous_workspace_idx returns the external index that the workspace
\* which was active just before the last effective activate_workspace has
\* now, whatever was pushed to or popped from either end since, and none
\* when no activate_workspace took effect or that workspace is not in the
\* sequence.
C30_PreviousWorkspaceIdx ==
    LET previous == previous_workspace_idx(seq)
    IN  IF prior \in SeqIds(seq)
        THEN /\ previous.some
             /\ Addresses(seq, previous.idx)
             /\ At(seq.workspaces, InternalPosition(seq, previous.idx)) = prior
        ELSE previous = NoWorkspaceIdx

C30_Witness ==
    /\ ~panicked
    /\ prior = "a"
    /\ called = "push_front"
    /\ seq.workspaces = <<"c", "a", "b">>
    /\ seq.active_workspace_idx = 1
    /\ previous_workspace_idx(seq) = [some |-> TRUE, idx |-> 0]


\* C32: in every Normal state the active_workspace_idx of every monitor is an
\* index into the workspaces of that monitor.
C32_ActiveWorkspaceIdxValid ==
    ms.kind = "Normal" =>
        \A m \in Idx(ms.monitors) :
            At(ms.monitors, m).active_workspace_idx \in Idx(At(ms.monitors, m).workspaces)


\* active_workspace_idx of monitor `mon` addresses one of its workspaces.
HasActive(mon) == mon.active_workspace_idx \in Idx(mon.workspaces)

\* The windows of the active workspace of monitor `mon`, in order.
ActiveWindowsOf(mon) == WorkspaceWindows(At(mon.workspaces, mon.active_workspace_idx))

\* C33: MonitorSet::remove_window leaves the active workspace of every monitor
\* the workspace it was: afterwards active_workspace_idx addresses a workspace
\* with the windows the active workspace had, less the removed window.
C33_RemoveWindowKeepsActive ==
    (ms.kind = "Normal" /\ \A m \in Idx(ms.monitors) : HasActive(At(ms.monitors, m))) =>
        \A window \in Mapped(ms) :
            LET t == RemoveWindow(ms, window)
            IN  \A m \in Idx(ms.monitors) :
                    /\ At(t.monitors, m).active_workspace_idx
                           \in Idx(At(t.monitors, m).workspaces)
                    /\ ActiveWindowsOf(At(t.monitors, m))
                           = SelectSeq(ActiveWindowsOf(At(ms.monitors, m)),
                                       LAMBDA w : w # window)


\* The monitor of `output` in layout `after` has as its active workspace the
\* workspace (the same windows, arranged the same) that the monitor of
\* `output` had as its active workspace in layout `before`.
SameActiveOn(before, after, output) ==
    /\ MonitorOf(after, output) # -1
    /\ LET was == At(before.monitors, MonitorOf(before, output))
           is == At(after.monitors, MonitorOf(after, output))
       IN  /\ HasActive(is)
           /\ Arrangement(At(is.workspaces, is.active_workspace_idx))
                = Arrangement(At(was.workspaces, was.active_workspace_idx))

\* C36: after remove_output(O) immediately followed by add_output(O) the
\* active workspace of the monitor of O, and of every other monitor, is the
\* workspace that was active there before the disconnect.
C36_ReconnectKeepsActive ==
    (/\ trip.phase = 2 /\ ~panicked /\ trip.before.kind = "Normal"
     /\ \A m \in Idx(trip.before.monitors) : HasActive(At(trip.before.monitors, m))) =>
        /\ ms.kind = "Normal"
        /\ \A m \in Idx(trip.before.monitors) :
              SameActiveOn(trip.before, ms, At(trip.before.monitors, m).output)


\* The active window of a column.
ActiveWindowOfColumn(col) == At(col.windows, col.active_window_idx)

\* C35: Workspace::remove_window of a window that is not the active window of
\* the workspace leaves the active window of the workspace the window it was,
\* and the active window of every column, unless it is the removed window, is
\* still the active window of its column.
C35_RemoveKeepsActiveWindows ==
    \A ws \in WorkspacesOf(ms) :
        (/\ ws.active_column_idx \in Idx(ws.columns)
         /\ \A c \in Idx(ws.columns) :
               At(ws.columns, c).active_window_idx \in Idx(At(ws.columns, c).windows)) =>
            \A i \in Idx(WorkspaceWindows(ws)) :
                LET window == At(WorkspaceWindows(ws), i)
                    t == WorkspaceRemoveWindow(ws, window)
                IN  window # ActiveWindowOf(ws) =>
                        /\ t.active_column_idx \in Idx(t.columns)
                        /\ ActiveWindowOf(t) = ActiveWindowOf(ws)
                        /\ \A c \in Idx(ws.columns) :
                              ActiveWindowOfColumn(At(ws.columns, c)) # window =>
                                  \E d \in Idx(t.columns) :
                                      ActiveWindowOfColumn(At(t.columns, d))
                                          = ActiveWindowOfColumn(At(ws.columns, c))


\* C31: every window of every workspace is on the output of its workspace and
\* on no other: it has entered that output and left every output it entered
\* before, and a window of a workspace without an output is on none.
C31_OutputMembership ==
    \A ws \in WorkspacesOf(ms) :
        \A window \in Among(WorkspaceWindows(ws)) :
            clients[window].outputs
                = IF ws.output = NoOutput THEN {} ELSE {OutputId(ws.output)}


\* C34: in every workspace at most one window has its activation flag set,
\* and a window that has it set is the active window of the active column of
\* the workspace.
C34_OneActivatedWindow ==
    \A ws \in WorkspacesOf(ms) :
        \A window \in Among(WorkspaceWindows(ws)) :
            clients[window].activated =>
                /\ ws.active_column_idx \in Idx(ws.columns)
                /\ window = ActiveWindowOf(ws)


\* C37: the size last requested of every window of the layout is the size
\* update_window_sizes computes for the column the window is in now and the
\* view size its workspace has now; so the windows of a column share one
\* size, of height max((view_h - PADDING) / n - PADDING, 1) for the n windows
\* of the column.
C37_RequestedSizesConsistent ==
    \A ws \in WorkspacesOf(ms) :
        \A i \in Idx(ws.columns) :
            LET col == At(ws.columns, i)
                n == Len(col.windows)
                height == (ws.view_size.h - PADDING) \div n - PADDING
            IN  \A window \in Among(col.windows) :
                    /\ clients[window].size
                          = ColumnRequest(col, ws.view_size, debug_assertions)
                    /\ clients[window].size.h = IF height > 1 THEN height ELSE 1

C37_Witness ==
    /\ ~panicked
    /\ HasActiveColumn(ms)
    /\ ActiveWorkspace(ms).output = [name |-> "B"]
    /\ ActiveColumn(ms).windows = <<"w1", "w2">>
    /\ clients["w1"].size = Size(936, 516)
    /\ clients["w2"].size = Size(936, 516)

====
